---- MODULE Spec2Model ----
(***************************************************************************)
(* Google Maps business scraper.                                           *)
(*   src/src/main.js       : the Playwright crawler (SEARCH and DETAIL      *)
(*                           requests in one crawlee request queue)         *)
(*   src/unnamed/part_001  : the "fast mode" variant (Playwright for the    *)
(*                           search page, got-scraping for the places)      *)
(* Text is a sequence of code points; a code point is written as a string   *)
(* ("A", " ", "?", "U+2B50").  An optional value is <<>> (null, undefined)  *)
(* or <<v>>.                                                                *)
(***************************************************************************)
EXTENDS Integers, Sequences, FiniteSets, Bags, TLC

VARIABLES
    maxConcurrency,     \* input: how many requests the crawler runs at a time
    dataset,            \* the default dataset, a bag of entries
    faultsLeft,         \* environment: how many more attempts may fail
    \* main.js
    requestQueue,       \* the crawler's request queue, in insertion order
    seenBusinessUrls,   \* main.js:161
    sessions,           \* the crawler's session pool
    resultLists,        \* environment: the link lists a results feed can show
    presented,          \* history: the place links whose canonical form was looked up
    admitted,           \* history: the place links the admission loops let through (a bag)
    challenged,         \* history: sessions whose attempt ended in 'Bot detection triggered'
    \* part_001
    searchQueue,        \* the crawler's request queue: one request per query
    seenUrls,           \* part_001:167
    allBusinessData,    \* part_001:166
    proxyConf,          \* part_001:162: how many proxy URLs, and whose turn it is
    saved,              \* part_001:273-275 has run
    fetched,            \* history: the extractPlaceHttp calls that have returned
    detached,           \* handlers that run on after their request timed out
    fastAdmitted,       \* history: the links the admission loops let through, by query
    timeoutsLeft,       \* environment: how many more handler runs may time out
    \* the helper functions, called on their own
    call,               \* the function called and its arguments
    outputs,            \* what the call returned, and what the calls on its results returned
    \* main.js, the requests of a run counted
    validQueriesLength, \* main.js:140: how many queries the run has
    runMaxResults,    \* main.js:123: the input maxResults
    pendingSearch,      \* SEARCH requests in the queue, not yet handled
    pendingDetail,      \* DETAIL requests in the queue, not yet handled
    handledRequestsCount, \* the crawler's count of requests that succeeded or failed for good
    crawlPc             \* "idle", "run" (crawler.run), "done" (it returned), "exited"

commonVars == <<maxConcurrency, dataset, faultsLeft>>
mainVars == <<requestQueue, seenBusinessUrls, sessions, resultLists, presented,
              admitted, challenged>>
fastVars == <<searchQueue, seenUrls, allBusinessData, proxyConf, saved, fetched,
              detached, fastAdmitted, timeoutsLeft>>
pureVars == <<call, outputs>>
countVars == <<validQueriesLength, runMaxResults, pendingSearch, pendingDetail,
               handledRequestsCount, crawlPc>>
sideVars == <<pureVars, countVars>>
vars == <<commonVars, mainVars, fastVars, sideVars>>

\* ------------------------------------------------------------------ bounds
MaxConcurrencyInput == 2    \* the largest maxConcurrency checked
MaxFaults == 3              \* failed attempts per run, where requests run concurrently
MaxTimeouts == 1            \* handler runs that reach the handler timeout, per run
MaxQueries == 101           \* the largest number of search queries checked

\* ------------------------------------------------------- program constants
maxPoolSize == 10
maxUsageCount == 5
maxErrorScore == 1
maxRequestRetries == 2
requestHandlerTimeoutSecs == 120
feedSelectorTimeoutSecs == 30

None == <<>>
Some(v) == <<v>>

\* ------------------------------------------------------------ text helpers
RECURSIVE IndexOf(_, _, _)
IndexOf(s, c, i) ==
    IF i > Len(s) THEN 0
    ELSE IF s[i] = c THEN i
    ELSE IndexOf(s, c, i + 1)

\* JavaScript's white space (\s, String.prototype.trim) among the modelled code points
IsJsSpace(c) == c \in {" ", "U+000A", "U+00A0"}

RECURSIVE TrimLeft(_)
TrimLeft(s) ==
    IF s # <<>> /\ IsJsSpace(Head(s)) THEN TrimLeft(Tail(s)) ELSE s

RECURSIVE TrimRight(_)
TrimRight(s) ==
    IF s # <<>> /\ IsJsSpace(s[Len(s)]) THEN TrimRight(SubSeq(s, 1, Len(s) - 1)) ELSE s

Trim(s) == TrimRight(TrimLeft(s))

\* s.replace(/\s+/g, ' ')
RECURSIVE CollapseSpaces(_)
CollapseSpaces(s) ==
    IF s = <<>> THEN <<>>
    ELSE IF IsJsSpace(Head(s))
         THEN <<" ">> \o CollapseSpaces(TrimLeft(s))
         ELSE <<Head(s)>> \o CollapseSpaces(Tail(s))

\* ASCII lower-casing of the letters the model uses (the /i flag)
Lower(c) ==
    CASE c = "C" -> "c" [] c = "O" -> "o" [] c = "P" -> "p" [] c = "Y" -> "y"
      [] c = "E" -> "e" [] c = "N" -> "n" [] c = "H" -> "h" [] c = "U" -> "u"
      [] c = "R" -> "r" [] c = "S" -> "s" [] OTHER -> c

CopyOpenHours ==
    <<"c", "o", "p", "y", " ", "o", "p", "e", "n", " ", "h", "o", "u", "r", "s">>

\* TRUE iff s, from position i on, starts with the phrase p, letter case ignored
StartsWithAt(s, i, p) ==
    /\ i + Len(p) - 1 <= Len(s)
    /\ \A k \in 1..Len(p) : Lower(s[i + k - 1]) = p[k]

RECURSIVE SkipSpaces(_, _)
SkipSpaces(s, i) ==
    IF i <= Len(s) /\ IsJsSpace(s[i]) THEN SkipSpaces(s, i + 1) ELSE i

\* Length of the match of /,?\s*Copy open hours/i at position i, 0 when none.
\* (,? and \s* are greedy; the phrase starts with a letter, so giving back
\* white space never helps, and giving back the comma is the second try.)
CopyOpenHoursMatchAt(s, i) ==
    LET afterComma == IF i <= Len(s) /\ s[i] = "," THEN i + 1 ELSE i
        j == SkipSpaces(s, afterComma)
        j0 == SkipSpaces(s, i)
    IN  IF StartsWithAt(s, j, CopyOpenHours) THEN j + Len(CopyOpenHours) - i
        ELSE IF StartsWithAt(s, j0, CopyOpenHours) THEN j0 + Len(CopyOpenHours) - i
        ELSE 0

\* s.replace(/,?\s*Copy open hours/gi, ''): one left-to-right pass
RECURSIVE StripCopyOpenHours(_, _)
StripCopyOpenHours(s, i) ==
    IF i > Len(s) THEN <<>>
    ELSE LET n == CopyOpenHoursMatchAt(s, i)
         IN  IF n > 0 THEN StripCopyOpenHours(s, i + n)
             ELSE <<s[i]>> \o StripCopyOpenHours(s, i + 1)

\* Code point classes of main.js cleanText, lines 7-11
InSupplementary(c) == c \in {"U+1F600"}                 \* [\u{1F000}-\u{1FFFF}]
InSymbolBlocks(c) == c \in {"U+2B50", "U+200E"}         \* [\u{2000}-\u{2FFF}]
InControl(c) == c \in {"U+000A", "U+00A0", "U+200E"}    \* [\u0000-\u001F\u007F-\u00A0 ...]
InVariation(c) == c \in {"U+FE0F"}                      \* [\uFE00-\uFE0F]
\* what line 11 keeps: [\x20-\x7E\xA0-\xFF\u0100-\u024F]
InLatin(c) == c \notin {"U+1F600", "U+2B50", "U+200E", "U+000A", "U+FE0F", "U+6771"}

KeptByCleanText(c) ==
    /\ ~InSupplementary(c)
    /\ ~InSymbolBlocks(c)
    /\ ~InControl(c)
    /\ ~InVariation(c)
    /\ InLatin(c)

RECURSIVE StripCodePoints(_)
StripCodePoints(s) ==
    IF s = <<>> THEN <<>>
    ELSE IF KeptByCleanText(Head(s)) THEN <<Head(s)>> \o StripCodePoints(Tail(s))
    ELSE StripCodePoints(Tail(s))

\* cleanText that only tidies the white space
cleanTextSpacesOnly(text) ==
    IF text = None \/ text = Some(<<>>) THEN <<>>
    ELSE Trim(CollapseSpaces(text[1]))

\* main.js cleanText; the argument is an optional text
cleanText(text) ==
    IF text = None \/ text = Some(<<>>) THEN <<>>
    ELSE Trim(CollapseSpaces(StripCopyOpenHours(StripCodePoints(text[1]), 1)))

\* ---------------------------------------------------------------- numbers
\* A decimal is [num, den], the value num/den: den is a power of ten and num
\* is no multiple of ten unless den = 1.
Digits == {"0", "1", "2", "3", "4", "5", "6", "7", "8", "9"}
IsDigit(c) == c \in Digits
DigitValue(c) ==
    CASE c = "0" -> 0 [] c = "1" -> 1 [] c = "2" -> 2 [] c = "3" -> 3 [] c = "4" -> 4
      [] c = "5" -> 5 [] c = "6" -> 6 [] c = "7" -> 7 [] c = "8" -> 8 [] c = "9" -> 9

RECURSIVE DigitsToNat(_, _)
DigitsToNat(s, acc) ==
    IF s = <<>> THEN acc ELSE DigitsToNat(Tail(s), 10 * acc + DigitValue(Head(s)))

RECURSIVE Pow10(_)
Pow10(k) == IF k = 0 THEN 1 ELSE 10 * Pow10(k - 1)

RECURSIVE Reduce(_)
Reduce(v) ==
    IF v.den > 1 /\ v.num % 10 = 0
    THEN Reduce([num |-> v.num \div 10, den |-> v.den \div 10])
    ELSE v

\* the end (exclusive) of the run of digits of s that starts at i
RECURSIVE DigitRunEnd(_, _)
DigitRunEnd(s, i) ==
    IF i <= Len(s) /\ IsDigit(s[i]) THEN DigitRunEnd(s, i + 1) ELSE i

\* the first position >= i of s that holds a digit, 0 when none
RECURSIVE FirstDigit(_, _)
FirstDigit(s, i) ==
    IF i > Len(s) THEN 0
    ELSE IF IsDigit(s[i]) THEN i
    ELSE FirstDigit(s, i + 1)

RemoveFirst(s, c) ==
    LET i == IndexOf(s, c, 1)
    IN  IF i = 0 THEN s ELSE SubSeq(s, 1, i - 1) \o SubSeq(s, i + 1, Len(s))

\* the value of the text that /(\d+[\.,]?\d*)/ matches first in s, from
\* parseFloat(match[1].replace(',', '.')); None when nothing matches
firstNumber(s) ==
    LET b == FirstDigit(s, 1)
    IN  IF b = 0 THEN None
        ELSE LET e == DigitRunEnd(s, b)
                 hasSep == e <= Len(s) /\ s[e] \in {".", ","}
                 fe == IF hasSep THEN DigitRunEnd(s, e + 1) ELSE e
                 frac == IF hasSep THEN SubSeq(s, e + 1, fe - 1) ELSE <<>>
             IN  Some(Reduce([num |-> DigitsToNat(SubSeq(s, b, e - 1), 0) * Pow10(Len(frac))
                                        + DigitsToNat(frac, 0),
                              den |-> Pow10(Len(frac))]))

\* parseRating without the test of the range
parseRatingAnyValue(text) ==
    IF text = None \/ text = Some(<<>>) THEN None
    ELSE firstNumber(RemoveFirst(text[1], "U+200E"))

\* main.js parseRating: an optional text to an optional decimal
parseRating(text) ==
    IF text = None \/ text = Some(<<>>) THEN None
    ELSE LET cleaned == RemoveFirst(text[1], "U+200E")
             b == FirstDigit(cleaned, 1)                     \* /(\d+[\.,]?\d*)/
         IN  IF b = 0 THEN None
             ELSE LET e == DigitRunEnd(cleaned, b)
                      hasSep == e <= Len(cleaned) /\ cleaned[e] \in {".", ","}
                      fe == IF hasSep THEN DigitRunEnd(cleaned, e + 1) ELSE e
                      int == DigitsToNat(SubSeq(cleaned, b, e - 1), 0)
                      frac == IF hasSep THEN SubSeq(cleaned, e + 1, fe - 1) ELSE <<>>
                      value == Reduce([num |-> int * Pow10(Len(frac)) + DigitsToNat(frac, 0),
                                       den |-> Pow10(Len(frac))])
                  IN  IF value.num < 0 \/ value.num > 5 * value.den THEN None
                      ELSE Some(value)

IsCountChar(c) == IsDigit(c) \/ c \in {",", "."} \/ IsJsSpace(c)

RECURSIVE FirstCountChar(_, _)
FirstCountChar(s, i) ==
    IF i > Len(s) THEN 0
    ELSE IF IsCountChar(s[i]) THEN i
    ELSE FirstCountChar(s, i + 1)

RECURSIVE CountRunEnd(_, _)
CountRunEnd(s, i) ==
    IF i <= Len(s) /\ IsCountChar(s[i]) THEN CountRunEnd(s, i + 1) ELSE i

RECURSIVE OnlyDigits(_)
OnlyDigits(s) ==
    IF s = <<>> THEN <<>>
    ELSE IF IsDigit(Head(s)) THEN <<Head(s)>> \o OnlyDigits(Tail(s))
    ELSE OnlyDigits(Tail(s))

\* main.js parseReviewsCount: an optional text to an optional natural number.
\* The second pattern of line 43 matches only where the first one does.
parseReviewsCount(text) ==
    IF text = None \/ text = Some(<<>>) THEN None
    ELSE LET b == FirstCountChar(text[1], 1)                 \* /([\d,\.\s]+)/
         IN  IF b = 0 THEN None
             ELSE LET digits == OnlyDigits(SubSeq(text[1], b, CountRunEnd(text[1], b) - 1))
                  IN  IF digits = <<>> THEN None              \* parseInt('') is NaN
                      ELSE Some(DigitsToNat(digits, 0))

\* ------------------------------------------------------------------- urls
\* main.js canonicalizePlaceUrl: url.split('?')[0]
canonicalizePlaceUrl(url) ==
    LET i == IndexOf(url, "?", 1)
    IN  IF i = 0 THEN url ELSE SubSeq(url, 1, i - 1)

\* ---------------------------------------------------- main.js: the input
maxResults == 2

\* the hrefs a results feed can show; the first two share a canonical form
PlaceUrls == { <<"a">>, <<"a", "?", "x">>, <<"b">> }

\* [...new Set(links.map((link) => link.href))]: lists without repetition
RECURSIVE ListsOver(_)
ListsOver(S) ==
    {<<>>} \cup UNION { { <<u>> \o l : l \in ListsOver(S \ {u}) } : u \in S }

LinkLists == ListsOver(PlaceUrls)

SearchUrl(query) == <<"search", query, "?", "hl">>

\* ------------------------------------------- main.js: the request queue
\* A request of the queue, with the state of its running attempt (session, pc,
\* limitedLinks) and, for the history, the session of its last failed attempt
\* and the place page its handler read.
SearchRequest(query) ==
    [label |-> "SEARCH", query |-> query, url |-> SearchUrl(query),
     state |-> "queued", retryCount |-> 0, errorMessages |-> <<>>,
     session |-> <<>>, pc |-> "", limitedLinks |-> <<>>,
     failedSession |-> <<>>, page |-> None]

DetailRequest(detailUrl, query) ==
    [label |-> "DETAIL", query |-> query, url |-> detailUrl,
     state |-> "queued", retryCount |-> 0, errorMessages |-> <<>>,
     session |-> <<>>, pc |-> "", limitedLinks |-> <<>>,
     failedSession |-> <<>>, page |-> None]

\* crawler.run(startUrls): one SEARCH request per valid query
startRequests(validQueries) ==
    [k \in 1..Len(validQueries) |-> SearchRequest(validQueries[k])]

Running == { i \in 1..Len(requestQueue) : requestQueue[i].state = "running" }

\* crawler.addRequests: a request whose uniqueKey (its url) is in the queue
\* already is not added again
RECURSIVE addRequests(_, _, _)
addRequests(queue, links, query) ==
    IF links = <<>> THEN queue
    ELSE IF \E i \in 1..Len(queue) : queue[i].url = Head(links)
         THEN addRequests(queue, Tail(links), query)
         ELSE addRequests(Append(queue, DetailRequest(Head(links), query)),
                          Tail(links), query)

\* ---------------------------------------------- main.js: the session pool
NewSession(id) == [id |-> id, usageCount |-> 0, errorScore |-> 0]

isUsable(s) == s.errorScore < maxErrorScore /\ s.usageCount < maxUsageCount

\* SessionPool.getSession: a new session (named newId) while the pool has
\* room; then a session picked at random, replaced by a new one (and the
\* unusable ones dropped) when the pick is not usable
getSession(pool, newId) ==
    IF Cardinality(pool) < maxPoolSize
    THEN { [id |-> newId, pool |-> pool \cup {NewSession(newId)}] }
    ELSE { IF isUsable(picked)
           THEN [id |-> picked.id, pool |-> pool]
           ELSE [id |-> newId,
                 pool |-> {s \in pool : isUsable(s)} \cup {NewSession(newId)}]
           : picked \in pool }

\* Session.markGood, after a handled request
markGood(pool, id) ==
    { IF s.id = id THEN [s EXCEPT !.usageCount = @ + 1] ELSE s : s \in pool }

\* a failed attempt that leaves the error score of its session alone
markBadLeftOut(pool, id) ==
    { IF s.id = id THEN [s EXCEPT !.usageCount = @ + 1] ELSE s : s \in pool }

\* Session.markBad, after a failed attempt
markBad(pool, id) ==
    { IF s.id = id THEN [s EXCEPT !.usageCount = @ + 1, !.errorScore = @ + 1] ELSE s
      : s \in pool }

\* ------------------------------------------------ main.js: failed attempts
\* request.errorMessages?.join(', ') || 'Request failed'
RECURSIVE Join(_)
Join(msgs) ==
    IF msgs = <<>> THEN <<>>
    ELSE IF Len(msgs) = 1 THEN <<msgs[1]>>
    ELSE <<msgs[1], ",", " ">> \o Join(Tail(msgs))

\* main.js failedRequestHandler
failedRequestHandler(request) ==
    [error |-> TRUE, url |-> request.url, query |-> request.query,
     errorMessage |-> IF Join(request.errorMessages) = <<>>
                      THEN <<"Request failed">>
                      ELSE Join(request.errorMessages)]

\* the crawler's answer to an attempt that threw or timed out: retry it up to
\* maxRequestRetries times, then hand it to failedRequestHandler
\* the retry test off by one
shouldRetryOnceMore(request) == request.retryCount <= maxRequestRetries

shouldRetry(request) == request.retryCount < maxRequestRetries

FailAttempt(i, message) ==
    LET request == [requestQueue[i] EXCEPT !.errorMessages = Append(@, message),
                                           !.failedSession = requestQueue[i].session]
    IN  /\ faultsLeft > 0
        /\ faultsLeft' = faultsLeft - 1
        /\ IF shouldRetry(request)
           THEN /\ requestQueue' = [requestQueue EXCEPT ![i] =
                       [request EXCEPT !.state = "queued", !.retryCount = @ + 1, !.session = <<>>,
                                       !.pc = "", !.limitedLinks = <<>>]]
                /\ dataset' = dataset
           ELSE /\ requestQueue' = [requestQueue EXCEPT ![i] =
                       [request EXCEPT !.state = "failed", !.pc = "", !.session = <<>>,
                                       !.limitedLinks = <<>>]]
                /\ dataset' = dataset (+) SetToBag({failedRequestHandler(request)})
        /\ sessions' = markBad(sessions, requestQueue[i].session)

\* --------------------------------------- main.js: the SEARCH handler
\* What the four feed selectors of lines 338-355 do, one after the other: the
\* element is there ("match"), waitForSelector throws at once ("throw"), or it
\* runs into its own 30 s timeout ("timeout").
FeedSelectorOutcomes == [1..4 -> {"match", "throw", "timeout"}]

\* lines 345-355: whether the feed was found, and the seconds spent waiting
RECURSIVE waitForFeed(_, _, _)
waitForFeed(sel, k, elapsed) ==
    IF k > 4 THEN [feedFound |-> FALSE, elapsed |-> elapsed]
    ELSE IF sel[k] = "match" THEN [feedFound |-> TRUE, elapsed |-> elapsed]
    ELSE IF sel[k] = "throw" THEN waitForFeed(sel, k + 1, elapsed)
    ELSE waitForFeed(sel, k + 1, elapsed + feedSelectorTimeoutSecs)

FeedWaits == { waitForFeed(sel, 1, 0) : sel \in FeedSelectorOutcomes }

\* the handler is stopped once requestHandlerTimeoutSecs have passed
InTime(elapsed) == elapsed < requestHandlerTimeoutSecs

\* some way the selectors behave gets the handler to line 357 without a feed
FeedNotFoundInTime ==
    (\E w \in FeedWaits : ~w.feedFound /\ InTime(w.elapsed)) = TRUE

\* some way the selectors behave gets the handler to line 379 with the feed
\* (found by a selector, or after Enter, line 370)
FeedFoundInTime ==
    (\E w \in FeedWaits : InTime(w.elapsed)) = TRUE

\* lines 388-395: the admission loop.  The result is the seen set and
\* limitedLinks, and (for the history) the links the loop got to.
\* the lookup with the link as it stands, not its canonical form
IsSeenRaw(seen, detailUrl) == detailUrl \in seen

IsSeen(seen, detailUrl) == canonicalizePlaceUrl(detailUrl) \in seen

RECURSIVE admitLinks(_, _, _, _)
admitLinks(businessLinks, seen, limitedLinks, tested) ==
    IF businessLinks = <<>>
    THEN [seen |-> seen, limitedLinks |-> limitedLinks, tested |-> tested]
    ELSE LET detailUrl == Head(businessLinks)
             key == canonicalizePlaceUrl(detailUrl)
         IN  IF IsSeen(seen, detailUrl)
             THEN admitLinks(Tail(businessLinks), seen, limitedLinks,
                             tested \cup {detailUrl})
             ELSE IF Len(limitedLinks) + 1 >= maxResults
                  THEN [seen |-> seen \cup {key},
                        limitedLinks |-> Append(limitedLinks, detailUrl),
                        tested |-> tested \cup {detailUrl}]
                  ELSE admitLinks(Tail(businessLinks), seen \cup {key},
                                  Append(limitedLinks, detailUrl),
                                  tested \cup {detailUrl})

\* -------------------------------------- main.js: the DETAIL handler
\* A rendered place page: the textContent of the elements the three name
\* selectors find (None: no such element), the 'stars' and 'review'
\* aria-labels and texts of lines 445-450, the page title and the content of
\* the og:title/title meta element.
\* pickText, lines 418-427
RECURSIVE pickText(_)
pickText(found) ==
    IF found = <<>> THEN None
    ELSE IF Head(found) # None /\ Head(found)[1] # <<>> /\ Trim(Head(found)[1]) # <<>>
         THEN Some(Trim(Head(found)[1]))
         ELSE pickText(Tail(found))

\* pickAttr, lines 429-437
RECURSIVE pickAttr(_)
pickAttr(found) ==
    IF found = <<>> THEN None
    ELSE IF Head(found) # None /\ Head(found)[1] # <<>>
         THEN Head(found)
         ELSE pickAttr(Tail(found))

\* a || b on optional texts
OrElse(a, b) == IF a # None /\ a # Some(<<>>) THEN a ELSE b

\* x || undefined
OrUndefined(s) == IF s = <<>> THEN None ELSE Some(s)

\* pgTitle.split('-')[0]
BeforeHyphen(s) ==
    LET i == IndexOf(s, "-", 1)
    IN  IF i = 0 THEN s ELSE SubSeq(s, 1, i - 1)

\* a fallback that never comes back without a name
fallbackNamePlaceholder(page) == Some(<<"U">>)

\* lines 532-547: the name from the page title, else from the meta element
fallbackName(page) ==
    IF page.title # None /\ page.title[1] # <<>> /\ Len(Trim(page.title[1])) > 0
    THEN Some(cleanText(Some(BeforeHyphen(page.title[1]))))
    ELSE IF page.metaTitle # None /\ page.metaTitle[1] # <<>>
         THEN Some(cleanText(page.metaTitle))
         ELSE None

\* lines 417-547: businessData before the reviews
businessData(page, businessUrl, query) ==
    LET ratingText == OrElse(pickAttr(page.starsLabels), pickText(page.ratingTexts))
        reviewsText == OrElse(pickAttr(page.reviewLabels), pickText(page.reviewsTexts))
        name == OrUndefined(cleanText(pickText(page.names)))
    IN  [error |-> FALSE,
         name |-> IF name = None THEN fallbackName(page) ELSE name,
         rating |-> parseRating(ratingText),
         reviewsCount |-> parseReviewsCount(reviewsText),
         url |-> businessUrl,
         searchQuery |-> query]

\* line 571: !businessData.name || businessData.name.trim().length === 0
hasNoName(data) ==
    data.name = None \/ data.name[1] = <<>> \/ Len(Trim(data.name[1])) = 0

Page(names, title, metaTitle, starsLabels, ratingTexts, reviewLabels, reviewsTexts) ==
    [names |-> names, title |-> title, metaTitle |-> metaTitle,
     starsLabels |-> starsLabels, ratingTexts |-> ratingTexts,
     reviewLabels |-> reviewLabels, reviewsTexts |-> reviewsTexts]

\* the place pages the crawler runs are checked with
DetailPages ==
    { \* a heading with a symbol, a rating label and a review label
      Page(<<Some(<<" ", "A", " ", "U+2B50", " ">>), None, None>>,
           Some(<<"A", " ", "-", " ", "G">>), None,
           <<Some(<<"4", ",", "5", " ", "s">>), None>>, <<None, None, None>>,
           <<Some(<<"1", "2", " ", "r">>), None>>, <<None, None, None>>),
      \* nothing that bears a name
      Page(<<None, None, None>>, Some(<<>>), None,
           <<None, None>>, <<None, None, None>>,
           <<None, None>>, <<None, None, None>>),
      \* elements without text, a title of white space, a meta element without content
      Page(<<Some(<<>>), Some(<<" ">>), None>>, Some(<<" ">>), Some(<<>>),
           <<Some(<<>>), None>>, <<None, None, None>>,
           <<None, None>>, <<Some(<<"r">>), None, None>>),
      \* a heading of symbols only, the name in the page title
      Page(<<Some(<<"U+2B50">>), None, None>>,
           Some(<<"B", " ", "-", " ", "G">>), None,
           <<None, None>>, <<Some(<<"7", ".", "5">>), None, None>>,
           <<None, None>>, <<None, None, None>>) }


\* --------------------------------------- main.js: the requests of a run counted
\* main.js:206
maxRequestsPerCrawl(maxResultsValue, queries) == maxResultsValue * queries + 100

\* no run is counted
CountIdle ==
    /\ validQueriesLength = 0
    /\ runMaxResults = 0
    /\ pendingSearch = 0
    /\ pendingDetail = 0
    /\ handledRequestsCount = 0
    /\ crawlPc = "idle"

\* the crawler takes no further request once handledRequestsCount has reached
\* maxRequestsPerCrawl (main.js:206)
BudgetLeft ==
    handledRequestsCount < maxRequestsPerCrawl(runMaxResults, validQueriesLength)
\* ------------------------------------------------- main.js: the crawler
RECURSIVE SeqToBag(_)
SeqToBag(s) == IF s = <<>> THEN EmptyBag ELSE SetToBag({Head(s)}) (+) SeqToBag(Tail(s))

AllFaults == (1 + maxRequestRetries) * (3 + Cardinality(PlaceUrls))

InitCrawler(validQueries) ==
    /\ requestQueue = startRequests(validQueries)
    /\ seenBusinessUrls = {}
    /\ dataset = EmptyBag
    /\ sessions = {}
    /\ presented = {}
    /\ admitted = EmptyBag
    /\ challenged = {}
    /\ searchQueue = <<>>
    /\ seenUrls = {}
    /\ allBusinessData = <<>>
    /\ proxyConf = [count |-> 1, next |-> 0]
    /\ saved = FALSE
    /\ fetched = {}
    /\ detached = {}
    /\ fastAdmitted = {}
    /\ timeoutsLeft = 0
    /\ call = [fn |-> "none"]
    /\ outputs = <<>>
    /\ CountIdle

\* Two kinds of run are checked: requests run concurrently, a results feed
\* shows any list of links, and at most MaxFaults attempts fail;
InitConcurrent ==
    /\ InitCrawler(<<"q1", "q2">>)
    /\ maxConcurrency \in 2..MaxConcurrencyInput
    /\ faultsLeft = MaxFaults
    /\ resultLists = LinkLists

\* or requests run one at a time, a results feed shows one link, and any
\* attempt may fail (so that the session pool fills up).
InitSequential ==
    /\ InitCrawler(<<"q1", "q2", "q3">>)
    /\ maxConcurrency = 1
    /\ faultsLeft = AllFaults
    /\ resultLists = { << <<"a">> >> }

Init == InitConcurrent \/ InitSequential

IsRunning(i, label, pc) ==
    /\ requestQueue[i].state = "running"
    /\ requestQueue[i].label = label
    /\ requestQueue[i].pc = pc

\* the request is handled: markRequestHandled, session.markGood
Handled(i) ==
    /\ requestQueue' = [requestQueue EXCEPT ![i].state = "handled", ![i].pc = "",
                                            ![i].session = <<>>]
    /\ sessions' = markGood(sessions, requestQueue[i].session)

\* The autoscaled pool starts the next attempt of a queued request when fewer
\* than maxConcurrency are running, with a session of the pool.
StartAttempt(i) ==
    /\ requestQueue[i].state = "queued"
    /\ Cardinality(Running) < maxConcurrency
    /\ \E got \in getSession(sessions, <<i, requestQueue[i].retryCount>>) :
          /\ sessions' = got.pool
          /\ requestQueue' = [requestQueue EXCEPT ![i].state = "running",
                                 ![i].session = got.id, ![i].pc = "handler"]
    /\ UNCHANGED <<maxConcurrency, resultLists, seenBusinessUrls, dataset, faultsLeft, presented, admitted, challenged, fastVars, sideVars>>

\* The navigation fails or times out, or the handler throws or runs into
\* requestHandlerTimeoutSecs (any request, before its handler's first effect).
TransientErrors == {"Navigation timed out"}

AttemptFails(i) ==
    /\ requestQueue[i].state = "running"
    /\ requestQueue[i].pc = "handler"
    /\ \E message \in TransientErrors : FailAttempt(i, message)
    /\ UNCHANGED <<maxConcurrency, resultLists, seenBusinessUrls, presented, admitted, challenged, fastVars, sideVars>>

\* lines 357-363: no feed, and the page holds 'unusual traffic' or 'captcha'
SearchBotDetected(i) ==
    /\ IsRunning(i, "SEARCH", "handler")
    /\ FeedNotFoundInTime
    /\ FailAttempt(i, "Bot detection triggered")
    /\ challenged' = challenged \cup {requestQueue[i].session}
    /\ UNCHANGED <<maxConcurrency, resultLists, seenBusinessUrls, presented, admitted, fastVars, sideVars>>

\* lines 365-376: no feed, no challenge marker, and no feed after Enter either
SearchFeedMissing(i) ==
    /\ IsRunning(i, "SEARCH", "handler")
    /\ FeedNotFoundInTime
    /\ Handled(i)
    /\ UNCHANGED <<maxConcurrency, resultLists, seenBusinessUrls, dataset, faultsLeft, presented, admitted, challenged, fastVars, sideVars>>

\* lines 379-395: the feed is there (by a selector, or after Enter); the links
\* are read and the admission loop runs, without an await in between
SearchAdmit(i) ==
    /\ IsRunning(i, "SEARCH", "handler")
    /\ FeedFoundInTime
    /\ \E businessLinks \in resultLists :
          LET res == admitLinks(businessLinks, seenBusinessUrls, <<>>, {})
          IN  /\ seenBusinessUrls' = res.seen
              /\ requestQueue' = [requestQueue EXCEPT ![i].pc = "addRequests",
                                     ![i].limitedLinks = res.limitedLinks]
              /\ admitted' = admitted (+) SeqToBag(res.limitedLinks)
              /\ presented' = presented \cup res.tested
    /\ UNCHANGED <<maxConcurrency, resultLists, dataset, sessions, faultsLeft, challenged, fastVars, sideVars>>

\* lines 397-405: await crawler.addRequests(...), return
SearchAddRequests(i) ==
    /\ IsRunning(i, "SEARCH", "addRequests")
    /\ LET queue == addRequests(requestQueue, requestQueue[i].limitedLinks,
                                requestQueue[i].query)
       IN  requestQueue' = [queue EXCEPT ![i].state = "handled", ![i].pc = "",
                                         ![i].session = <<>>, ![i].limitedLinks = <<>>]
    /\ sessions' = markGood(sessions, requestQueue[i].session)
    /\ UNCHANGED <<maxConcurrency, resultLists, seenBusinessUrls, dataset, faultsLeft, presented, admitted, challenged, fastVars, sideVars>>

\* lines 408-581: the place page is rendered and read; the record is pushed
\* unless it has no name
DetailHandler(i) ==
    /\ IsRunning(i, "DETAIL", "handler")
    /\ \E page \in DetailPages :
          LET data == businessData(page, requestQueue[i].url, requestQueue[i].query)
          IN  /\ dataset' = IF hasNoName(data) THEN dataset
                             ELSE dataset (+) SetToBag({data})
              /\ requestQueue' = [requestQueue EXCEPT ![i].state = "handled",
                                     ![i].pc = "", ![i].session = <<>>,
                                     ![i].page = Some(page)]
    /\ sessions' = markGood(sessions, requestQueue[i].session)
    /\ UNCHANGED <<maxConcurrency, resultLists, seenBusinessUrls, faultsLeft, presented, admitted, challenged, fastVars, sideVars>>

Requests == 1..Len(requestQueue)

Next ==
    \/ \E i \in Requests : StartAttempt(i)
    \/ \E i \in Requests : AttemptFails(i)
    \/ \E i \in Requests : SearchBotDetected(i)
    \/ \E i \in Requests : SearchFeedMissing(i)
    \/ \E i \in Requests : SearchAdmit(i)
    \/ \E i \in Requests : SearchAddRequests(i)
    \/ \E i \in Requests : DetailHandler(i)

Spec == Init /\ [][Next]_vars

\* =================================================================== part_001
\* The fast mode: search pages in the browser, place pages over plain HTTP.

MaxProxyUrls == 2           \* the longest proxy list checked

httpConcurrency == 10       \* part_001:254, the batch size handed to processDetailsInParallel
maxRequestRetriesFast == 1  \* part_001:188

\* Code point classes of part_001 cleanText, lines 10-11
InControlFast(c) == c \in {"U+000A", "U+00A0"}          \* [\u0000-\u001F\u007F-\u00A0]

RECURSIVE StripCodePointsFast(_)
StripCodePointsFast(s) ==
    IF s = <<>> THEN <<>>
    ELSE IF InSupplementary(Head(s)) \/ InControlFast(Head(s))
         THEN StripCodePointsFast(Tail(s))
         ELSE <<Head(s)>> \o StripCodePointsFast(Tail(s))

\* part_001 cleanText; the argument is a text
cleanTextFast(text) ==
    IF text = <<>> THEN <<>>
    ELSE Trim(CollapseSpaces(StripCodePointsFast(text)))

\* s.split(' - ')[0]
RECURSIVE SeparatorAt(_, _)
SeparatorAt(s, i) ==
    IF i + 2 > Len(s) THEN 0
    ELSE IF SubSeq(s, i, i + 2) = <<" ", "-", " ">> THEN i
    ELSE SeparatorAt(s, i + 1)

FirstSplit(s) ==
    LET k == SeparatorAt(s, 1)
    IN  IF k = 0 THEN s ELSE SubSeq(s, 1, k - 1)

\* A JSON-LD script element.  type is the list of names in '@type': one name
\* for a string, the elements for an array.
Block(parses, type, name, ratingValue, reviewCount) ==
    [parses |-> parses, type |-> type, name |-> name,
     ratingValue |-> ratingValue, reviewCount |-> reviewCount]

\* part_001:74
IsLocalBusiness(json) ==
    \E k \in 1..Len(json.type) : json.type[k] = "LocalBusiness"

\* part_001:70-88: the each() callback runs for every script element, in
\* document order, and assigns data on every element that matches
RECURSIVE scanJsonLd(_, _)
scanJsonLd(blocks, data) ==
    IF blocks = <<>> THEN data
    ELSE LET json == Head(blocks)
         IN  IF json.parses /\ IsLocalBusiness(json)
             THEN scanJsonLd(Tail(blocks),
                             Some([name |-> json.name,
                                   rating |-> json.ratingValue,
                                   reviewsCount |-> json.reviewCount]))
             ELSE scanJsonLd(Tail(blocks), data)

Response(threw, statusCode, jsonLd, ogTitle, title, h1) ==
    [threw |-> threw, statusCode |-> statusCode, jsonLd |-> jsonLd,
     ogTitle |-> ogTitle, title |-> title, h1 |-> h1]

Truthy(text) == text # None /\ text # Some(<<>>)

\* part_001:95-97
fallbackNameFast(response) ==
    LET og == IF response.ogTitle = None THEN None
              ELSE Some(FirstSplit(response.ogTitle[1]))
    IN  OrElse(OrElse(og, Some(FirstSplit(response.title))), Some(response.h1))

\* part_001:50-113; None is null
extractPlaceHttp(url, response, query) ==
    IF response.threw THEN None
    ELSE IF response.statusCode # 200 THEN None
    ELSE LET data == scanJsonLd(response.jsonLd, None)
             name == fallbackNameFast(response)
         IN  IF data # None /\ Truthy(data[1].name)
             THEN Some([error |-> FALSE, name |-> data[1].name,
                        rating |-> data[1].rating,
                        reviewsCount |-> data[1].reviewsCount,
                        url |-> url, searchQuery |-> query])
             ELSE IF Trim(name[1]) = <<>> THEN None
             ELSE Some([error |-> FALSE, name |-> Some(cleanTextFast(name[1])),
                        rating |-> None, reviewsCount |-> None,
                        url |-> url, searchQuery |-> query])

\* history: the strategies one extractPlaceHttp call went through
strategiesOf(response) ==
    IF response.threw \/ response.statusCode # 200 THEN <<"fetch">>
    ELSE LET data == scanJsonLd(response.jsonLd, None)
         IN  IF data # None /\ Truthy(data[1].name)
             THEN <<"fetch", "structured">>
             ELSE <<"fetch", "structured", "meta">>

\* part_001:127, r => r?.name
hasName(r) == r # None /\ Truthy(r[1].name)

\* ------------------------------------------------ part_001: the environment
Rating45 == [num |-> 45, den |-> 10]
Rating7 == [num |-> 7, den |-> 1]

\* what gotScraping can come back with for a place URL
HttpResponses ==
    { Response(TRUE, 0, <<>>, None, <<>>, <<>>),
      Response(FALSE, 404, <<>>, None, <<>>, <<>>),
      Response(FALSE, 200,
               << Block(TRUE, <<"LocalBusiness">>, Some(<<"A">>), Some(Rating45), Some(12)) >>,
               None, <<"A", " ", "-", " ", "G">>, <<>>),
      Response(FALSE, 200,
               << Block(FALSE, <<>>, None, None, None),
                  Block(TRUE, <<"Restaurant", "LocalBusiness">>, Some(<<" ">>),
                        Some(Rating7), Some(0 - 3)) >>,
               None, <<"B", " ", "-", " ", "G">>, <<>>),
      Response(FALSE, 200,
               << Block(TRUE, <<"WebSite">>, Some(<<"G">>), None, None) >>,
               Some(<<"B", " ", "-", " ", "G">>), <<"G">>, <<>>),
      Response(FALSE, 200, <<>>, None, <<"U+1F600">>, <<"B">>),
      Response(FALSE, 200, <<>>, None, <<>>, <<>>) }

\* ------------------------------------------------ part_001: the crawler
\* A request of the queue with the state of its running handler: the batch
\* of processDetailsInParallel that is in flight (the URLs with their proxy
\* URLs), what the finished calls of the batch returned, and results.
FastRequest(query) ==
    [query |-> query, url |-> SearchUrl(query), state |-> "queued",
     retryCount |-> 0, pc |-> "", uniqueLinks |-> <<>>, i |-> 0,
     inFlight |-> {}, returned |-> {}, results |-> <<>>]

\* part_001:265-270
startUrls(validQueries) ==
    [k \in 1..Len(validQueries) |-> FastRequest(validQueries[k])]

FastRequests == 1..Len(searchQueue)

FastRunning == { k \in FastRequests : searchQueue[k].state = "running" }

\* part_001:120-124: the batch from position i on, each URL with the proxy
\* URL of its newUrl() call.  The calls are made in batch order, and newUrl()
\* without a session id takes the proxy URLs in turn.
batchAt(uniqueLinks, i, nextUrl, count) ==
    LET last == IF i + httpConcurrency - 1 < Len(uniqueLinks)
                THEN i + httpConcurrency - 1 ELSE Len(uniqueLinks)
    IN  { [url |-> uniqueLinks[k], proxyUrl |-> (nextUrl + (k - i)) % count]
          : k \in i..last }

\* part_001:126-127: the results of a batch, in batch order, nulls and
\* nameless records left out
RECURSIVE batchResults(_, _)
batchResults(batch, returned) ==
    IF batch = <<>> THEN <<>>
    ELSE LET r == (CHOOSE t \in returned : t.url = Head(batch)).result
         IN  (IF hasName(r) THEN <<r[1]>> ELSE <<>>)
             \o batchResults(Tail(batch), returned)

\* the feed of a later attempt shows a place more
LaterLinkLists == { << <<"c">> >>, << <<"a">>, <<"c">> >> }

InitFast ==
    /\ maxConcurrency \in 1..MaxConcurrencyInput
    /\ dataset = EmptyBag
    /\ \E budget \in {<<MaxFaults, 0>>, <<0, MaxTimeouts>>} :
          faultsLeft = budget[1] /\ timeoutsLeft = budget[2]
    /\ requestQueue = <<>>
    /\ seenBusinessUrls = {}
    /\ sessions = {}
    /\ resultLists = LinkLists \cup LaterLinkLists
    /\ presented = {}
    /\ admitted = EmptyBag
    /\ challenged = {}
    /\ searchQueue = startUrls(<<"q1", "q2">>)
    /\ seenUrls = {}
    /\ allBusinessData = <<>>
    /\ proxyConf \in [count : 1..MaxProxyUrls, next : {0}]
    /\ saved = FALSE
    /\ fetched = {}
    /\ detached = {}
    /\ fastAdmitted = {}
    /\ call = [fn |-> "none"]
    /\ outputs = <<>>
    /\ CountIdle

\* the crawler takes a request off the queue
FastStartAttempt(k) ==
    /\ searchQueue[k].state = "queued"
    /\ Cardinality(FastRunning) < maxConcurrency
    /\ searchQueue' = [searchQueue EXCEPT ![k].state = "running", ![k].pc = "handler"]
    /\ UNCHANGED <<commonVars, mainVars, sideVars, seenUrls, allBusinessData, proxyConf, saved, fetched, detached, fastAdmitted, timeoutsLeft>>

\* navigation or the handler throws before the links are read; part_001:188
\* and 259-261: retried once, then failedRequestHandler, which only logs
FastAttemptFails(k) ==
    /\ searchQueue[k].pc = "handler"
    /\ faultsLeft > 0
    /\ faultsLeft' = faultsLeft - 1
    /\ searchQueue' =
         IF searchQueue[k].retryCount < maxRequestRetriesFast
         THEN [searchQueue EXCEPT ![k].state = "queued", ![k].pc = "",
                                  ![k].retryCount = @ + 1]
         ELSE [searchQueue EXCEPT ![k].state = "failed", ![k].pc = ""]
    /\ UNCHANGED <<maxConcurrency, dataset, mainVars, sideVars, seenUrls, allBusinessData,
                   proxyConf, saved, fetched, detached, fastAdmitted, timeoutsLeft>>

\* part_001:218-223
FastFeedMissing(k) ==
    /\ searchQueue[k].pc = "handler"
    /\ searchQueue' = [searchQueue EXCEPT ![k].state = "handled", ![k].pc = ""]
    /\ UNCHANGED <<commonVars, mainVars, sideVars, seenUrls, allBusinessData, proxyConf, saved, fetched, detached, fastAdmitted, timeoutsLeft>>

\* part_001:235-254: the links are read, the admission loop runs and
\* processDetailsInParallel starts its first batch, all without an await
\* that another handler could run in
FastAdmit(k) ==
    /\ searchQueue[k].pc = "handler"
    /\ \E links \in resultLists :
         LET a == admitLinks(links, seenUrls, <<>>, {})
             batch == batchAt(a.limitedLinks, 1, proxyConf.next, proxyConf.count)
         IN  /\ seenUrls' = a.seen
             /\ fastAdmitted' = fastAdmitted \cup
                    { [query |-> searchQueue[k].query, url |-> a.limitedLinks[n]]
                        : n \in 1..Len(a.limitedLinks) }
             /\ proxyConf' = [proxyConf EXCEPT
                                !.next = (@ + Cardinality(batch)) % proxyConf.count]
             /\ searchQueue' =
                  IF a.limitedLinks = <<>>
                  THEN [searchQueue EXCEPT ![k].state = "handled", ![k].pc = ""]
                  ELSE [searchQueue EXCEPT ![k].pc = "batch",
                                           ![k].uniqueLinks = a.limitedLinks,
                                           ![k].i = 1,
                                           ![k].inFlight = batch,
                                           ![k].returned = {},
                                           ![k].results = <<>>]
    /\ UNCHANGED <<commonVars, mainVars, sideVars, allBusinessData, saved, fetched, detached, timeoutsLeft>>

\* one extractPlaceHttp call of the batch returns; with the last one
\* Promise.all resolves (part_001:126-127) and the next batch starts or the
\* handler ends (part_001:254-257)
HttpReturns(k) ==
    /\ searchQueue[k].pc = "batch"
    /\ \E t \in searchQueue[k].inFlight, response \in HttpResponses :
         LET req == searchQueue[k]
             result == extractPlaceHttp(t.url, response, req.query)
             returned == req.returned \cup {[url |-> t.url, result |-> result]}
             inFlight == req.inFlight \ {t}
             last == IF req.i + httpConcurrency - 1 < Len(req.uniqueLinks)
                     THEN req.i + httpConcurrency - 1 ELSE Len(req.uniqueLinks)
             results == req.results
                        \o batchResults(SubSeq(req.uniqueLinks, req.i, last), returned)
             batch == batchAt(req.uniqueLinks, req.i + httpConcurrency,
                              proxyConf.next, proxyConf.count)
         IN  /\ fetched' = fetched \cup {[url |-> t.url,
                                          strategies |-> strategiesOf(response),
                                          named |-> hasName(result)]}
             /\ IF inFlight # {}
                THEN /\ searchQueue' = [searchQueue EXCEPT ![k].inFlight = inFlight,
                                                           ![k].returned = returned]
                     /\ UNCHANGED <<allBusinessData, proxyConf>>
                ELSE IF req.i + httpConcurrency <= Len(req.uniqueLinks)
                THEN /\ searchQueue' = [searchQueue EXCEPT
                                          ![k].i = @ + httpConcurrency,
                                          ![k].inFlight = batch,
                                          ![k].returned = {},
                                          ![k].results = results]
                     /\ proxyConf' = [proxyConf EXCEPT
                                        !.next = (@ + Cardinality(batch)) % proxyConf.count]
                     /\ UNCHANGED allBusinessData
                ELSE /\ searchQueue' = [searchQueue EXCEPT
                                          ![k].state = "handled", ![k].pc = "",
                                          ![k].inFlight = {}, ![k].returned = {},
                                          ![k].results = results]
                     /\ allBusinessData' = allBusinessData \o results
                     /\ UNCHANGED proxyConf
    /\ UNCHANGED <<commonVars, mainVars, sideVars, seenUrls, saved, detached, fastAdmitted, timeoutsLeft>>

\* part_001:187: the handler has run for requestHandlerTimeoutSecs while
\* processDetailsInParallel is at work.  The crawler takes the attempt as
\* failed (part_001:188, 259-261); the handler itself is not stopped and runs
\* on with what it has.
FastHandlerTimesOut(k) ==
    /\ searchQueue[k].pc = "batch"
    /\ timeoutsLeft > 0
    /\ timeoutsLeft' = timeoutsLeft - 1
    /\ detached' = detached \cup
          {[query |-> searchQueue[k].query, uniqueLinks |-> searchQueue[k].uniqueLinks,
            i |-> searchQueue[k].i, inFlight |-> searchQueue[k].inFlight,
            returned |-> searchQueue[k].returned, results |-> searchQueue[k].results]}
    /\ searchQueue' =
         [searchQueue EXCEPT
            ![k].state = IF searchQueue[k].retryCount < maxRequestRetriesFast
                         THEN "queued" ELSE "failed",
            ![k].retryCount = IF searchQueue[k].retryCount < maxRequestRetriesFast
                              THEN @ + 1 ELSE @,
            ![k].pc = "", ![k].uniqueLinks = <<>>, ![k].i = 0,
            ![k].inFlight = {}, ![k].returned = {}, ![k].results = <<>>]
    /\ UNCHANGED <<commonVars, mainVars, sideVars, seenUrls, allBusinessData,
                   proxyConf, saved, fetched, fastAdmitted>>

\* an extractPlaceHttp call of a handler that runs on returns; part_001
\* 126-127 and 254-257 as in HttpReturns.  After Actor.exit() nothing runs.
DetachedHttpReturns ==
    /\ ~saved
    /\ \E h \in detached :
       \E t \in h.inFlight, response \in HttpResponses :
         LET result == extractPlaceHttp(t.url, response, h.query)
             returned == h.returned \cup {[url |-> t.url, result |-> result]}
             inFlight == h.inFlight \ {t}
             last == IF h.i + httpConcurrency - 1 < Len(h.uniqueLinks)
                     THEN h.i + httpConcurrency - 1 ELSE Len(h.uniqueLinks)
             done == h.results \o batchResults(SubSeq(h.uniqueLinks, h.i, last), returned)
             batch == batchAt(h.uniqueLinks, h.i + httpConcurrency,
                              proxyConf.next, proxyConf.count)
         IN  /\ fetched' = fetched \cup {[url |-> t.url,
                                          strategies |-> strategiesOf(response),
                                          named |-> hasName(result)]}
             /\ IF inFlight # {}
                THEN /\ detached' = (detached \ {h}) \cup
                          {[h EXCEPT !.inFlight = inFlight, !.returned = returned]}
                     /\ UNCHANGED <<allBusinessData, proxyConf>>
                ELSE IF h.i + httpConcurrency <= Len(h.uniqueLinks)
                THEN /\ detached' = (detached \ {h}) \cup
                          {[h EXCEPT !.i = @ + httpConcurrency, !.inFlight = batch,
                                     !.returned = {}, !.results = done]}
                     /\ proxyConf' = [proxyConf EXCEPT
                                        !.next = (@ + Cardinality(batch)) % proxyConf.count]
                     /\ UNCHANGED allBusinessData
                ELSE /\ detached' = detached \ {h}
                     /\ allBusinessData' = allBusinessData \o done
                     /\ UNCHANGED proxyConf
    /\ UNCHANGED <<commonVars, mainVars, sideVars, searchQueue, seenUrls, saved, fastAdmitted, timeoutsLeft>>

\* part_001:270-275: the crawler is through, the records are saved
SaveAll ==
    /\ ~saved
    /\ \A k \in FastRequests : searchQueue[k].state \in {"handled", "failed"}
    /\ searchQueue # <<>>
    /\ dataset' = dataset (+) SeqToBag(allBusinessData)
    /\ saved' = TRUE
    /\ UNCHANGED <<maxConcurrency, faultsLeft, mainVars, sideVars, searchQueue, seenUrls,
                   allBusinessData, proxyConf, fetched, detached, fastAdmitted, timeoutsLeft>>

NextFast ==
    \/ \E k \in FastRequests : FastStartAttempt(k)
    \/ \E k \in FastRequests : FastAttemptFails(k)
    \/ \E k \in FastRequests : FastFeedMissing(k)
    \/ \E k \in FastRequests : FastAdmit(k)
    \/ \E k \in FastRequests : HttpReturns(k)
    \/ \E k \in FastRequests : FastHandlerTimesOut(k)
    \/ DetachedHttpReturns
    \/ SaveAll

SpecFast == InitFast /\ [][NextFast]_vars

\* =============================================== main.js: coordinates
\* A coordinate is a decimal [num, den] with a signed num.

\* the end (exclusive) of the match of -?\d+\.\d+ at position i of s, 0 when
\* there is none.  (The digit runs are greedy; a shorter run is followed by a
\* digit, so giving back digits never lets the rest of a pattern match.)
DecimalEnd(s, i) ==
    LET b == IF i <= Len(s) /\ s[i] = "-" THEN i + 1 ELSE i
        e == DigitRunEnd(s, b)
        f == DigitRunEnd(s, e + 1)
    IN  IF e > b /\ e <= Len(s) /\ s[e] = "." /\ f > e + 1 THEN f ELSE 0

\* parseFloat of the text that -?\d+\.\d+ matched
parseFloat(t) ==
    LET neg == t[1] = "-"
        digits == IF neg THEN Tail(t) ELSE t
        dot == IndexOf(digits, ".", 1)
        int == SubSeq(digits, 1, dot - 1)
        frac == SubSeq(digits, dot + 1, Len(digits))
        abs == Reduce([num |-> DigitsToNat(int, 0) * Pow10(Len(frac)) + DigitsToNat(frac, 0),
                       den |-> Pow10(Len(frac))])
    IN  [num |-> IF neg THEN 0 - abs.num ELSE abs.num, den |-> abs.den]

\* the match at position i of s of: lead, a decimal, sep, a decimal.  None
\* when there is none, else the two texts the groups matched.
GroupsAt(s, i, lead, sep) ==
    LET a == i + Len(lead)
        ae == DecimalEnd(s, a)
        b == ae + Len(sep)
        be == DecimalEnd(s, b)
    IN  IF /\ a - 1 <= Len(s)
           /\ SubSeq(s, i, a - 1) = lead
           /\ ae # 0
           /\ b - 1 <= Len(s)
           /\ SubSeq(s, ae, b - 1) = sep
           /\ be # 0
        THEN Some(<<SubSeq(s, a, ae - 1), SubSeq(s, b, be - 1)>>)
        ELSE None

\* url.match(...): the leftmost match
RECURSIVE FirstGroups(_, _, _, _)
FirstGroups(s, i, lead, sep) ==
    IF i > Len(s) THEN None
    ELSE IF GroupsAt(s, i, lead, sep) # None THEN GroupsAt(s, i, lead, sep)
    ELSE FirstGroups(s, i + 1, lead, sep)

\* /@(-?\d+\.\d+),(-?\d+\.\d+)/
atMatch(url) == FirstGroups(url, 1, <<"@">>, <<",">>)

\* /!3d(-?\d+\.\d+)!4d(-?\d+\.\d+)/
dataMatch(url) == FirstGroups(url, 1, <<"!", "3", "d">>, <<"!", "4", "d">>)

\* the two patterns tried the other way round
parseCoordsDataFirst(url) ==
    IF url = None \/ url = Some(<<>>)
    THEN [latitude |-> None, longitude |-> None]
    ELSE IF dataMatch(url[1]) # None
    THEN [latitude |-> Some(parseFloat(dataMatch(url[1])[1][1])),
          longitude |-> Some(parseFloat(dataMatch(url[1])[1][2]))]
    ELSE IF atMatch(url[1]) # None
    THEN [latitude |-> Some(parseFloat(atMatch(url[1])[1][1])),
          longitude |-> Some(parseFloat(atMatch(url[1])[1][2]))]
    ELSE [latitude |-> None, longitude |-> None]

\* main.js parseCoordsFromUrl, lines 49-66; the argument is an optional text
parseCoordsFromUrl(url) ==
    IF url = None \/ url = Some(<<>>)
    THEN [latitude |-> None, longitude |-> None]
    ELSE IF atMatch(url[1]) # None
    THEN [latitude |-> Some(parseFloat(atMatch(url[1])[1][1])),
          longitude |-> Some(parseFloat(atMatch(url[1])[1][2]))]
    ELSE IF dataMatch(url[1]) # None
    THEN [latitude |-> Some(parseFloat(dataMatch(url[1])[1][1])),
          longitude |-> Some(parseFloat(dataMatch(url[1])[1][2]))]
    ELSE [latitude |-> None, longitude |-> None]

\* !x of an optional number: null and 0 are falsy
IsFalsyNumber(x) == x = None \/ x[1].num = 0

\* x || undefined
NumberOrUndefined(x) == IF IsFalsyNumber(x) THEN None ELSE x

\* main.js 513-516 and 526-527: the coordinates of a business record
recordCoords(businessUrl, pageUrl) ==
    LET first == parseCoordsFromUrl(Some(businessUrl))
        coords == IF IsFalsyNumber(first.latitude) \/ IsFalsyNumber(first.longitude)
                  THEN parseCoordsFromUrl(Some(pageUrl))
                  ELSE first
    IN  [latitude |-> NumberOrUndefined(coords.latitude),
         longitude |-> NumberOrUndefined(coords.longitude)]

\* ================================== the helper functions, called on their own
\* Parts of a place URL, each with the coordinates it spells (None: it spells
\* none that its pattern takes)
Part(text, latitude, longitude) ==
    [text |-> text, latitude |-> latitude, longitude |-> longitude]

Dec(num, den) == [num |-> num, den |-> den]

AtParts ==
    { Part(<<>>, None, None),
      Part(<<"@", "0", ".", "0", ",", "1", "0", ".", "5">>, Some(Dec(0, 1)), Some(Dec(105, 10))),
      Part(<<"@", "1", ".", "5", ",", "-", "2", ".", "2", "5">>,
           Some(Dec(15, 10)), Some(Dec(0 - 225, 100))),
      Part(<<"@", "3", ",", "4", ".", "5">>, None, None) }

DataParts ==
    { Part(<<>>, None, None),
      Part(<<"!", "3", "d", "0", ".", "0", "!", "4", "d", "7", ".", "5">>,
           Some(Dec(0, 1)), Some(Dec(75, 10))),
      Part(<<"!", "3", "d", "6", ".", "5", "!", "4", "d", "8", ".", "5">>,
           Some(Dec(65, 10)), Some(Dec(85, 10))),
      Part(<<"!", "3", "d", "6", ".", "5">>, None, None) }

\* a place URL made of a path, an '@' part and a 'data' part
UrlOf(at, data) == <<"/", "p", "/">> \o at.text \o <<"/">> \o data.text

CoordsCalls ==
    { [fn |-> "parseCoordsFromUrl", at |-> at, data |-> data, url |-> Some(UrlOf(at, data))]
        : at \in AtParts, data \in DataParts }
    \cup { [fn |-> "parseCoordsFromUrl", at |-> Part(<<>>, None, None),
            data |-> Part(<<>>, None, None), url |-> u] : u \in {None, Some(<<>>)} }

PlaceUrlsWithCoords == { UrlOf(at, data) : at \in AtParts, data \in DataParts }

RecordCoordsCalls ==
    { [fn |-> "recordCoords", businessUrl |-> b, pageUrl |-> p]
        : b \in PlaceUrlsWithCoords, p \in PlaceUrlsWithCoords }

CallParseCoordsFromUrl ==
    /\ call.fn = "parseCoordsFromUrl"
    /\ outputs = <<>>
    /\ outputs' = <<parseCoordsFromUrl(call.url)>>
    /\ UNCHANGED <<commonVars, mainVars, fastVars, countVars, call>>

\* main.js 513-527, the DETAIL handler putting the coordinates into the record
CallRecordCoords ==
    /\ call.fn = "recordCoords"
    /\ outputs = <<>>
    /\ outputs' = <<recordCoords(call.businessUrl, call.pageUrl)>>
    /\ UNCHANGED <<commonVars, mainVars, fastVars, countVars, call>>

\* ------------------------------------------------------------ parseRating
MaxRatingLen == 3           \* the longest rating text checked

RatingChars == {"5", "0", "9", ".", ",", "s", "U+200E"}

TextsUpTo(chars, n) == UNION { [1..k -> chars] : k \in 0..n }

\* part_001 parseRating, lines 16-22; the argument is an optional text
parseRatingFast(text) ==
    IF text = None \/ text = Some(<<>>) THEN None
    ELSE LET value == firstNumber(text[1])
         IN  IF value # None /\ value[1].num >= 0 /\ value[1].num <= 5 * value[1].den
             THEN value ELSE None

RatingCalls ==
    { [fn |-> f, text |-> t] :
        f \in {"parseRating", "parseRatingFast"},
        t \in {None} \cup { Some(s) : s \in TextsUpTo(RatingChars, MaxRatingLen) } }

CallParseRating ==
    /\ call.fn = "parseRating"
    /\ outputs = <<>>
    /\ outputs' = <<parseRating(call.text)>>
    /\ UNCHANGED <<commonVars, mainVars, fastVars, countVars, call>>

CallParseRatingFast ==
    /\ call.fn = "parseRatingFast"
    /\ outputs = <<>>
    /\ outputs' = <<parseRatingFast(call.text)>>
    /\ UNCHANGED <<commonVars, mainVars, fastVars, countVars, call>>

\* -------------------------------------------------------------- cleanText
MaxPieces == 3              \* the most pieces a text for cleanText is made of

CopyOpen == <<"C", "o", "p", "y", " ", "o", "p", "e", "n", " ">>
Hours == <<"h", "o", "u", "r", "s">>

TextPieces ==
    { CopyOpen \o Hours, CopyOpen, Hours, <<"A">>, <<",">>, <<" ">>, <<"U+2B50">> }

RECURSIVE Concat(_)
Concat(pieces) ==
    IF pieces = <<>> THEN <<>> ELSE Head(pieces) \o Concat(Tail(pieces))

PiecedTexts == { Concat(p) : p \in TextsUpTo(TextPieces, MaxPieces) }

CleanTextCalls ==
    { [fn |-> f, text |-> t] :
        f \in {"cleanText", "cleanTextFast"},
        t \in {None} \cup { Some(s) : s \in PiecedTexts } }

\* cleanText on the text of the call, then on what it returned
CallCleanText ==
    /\ call.fn = "cleanText"
    /\ Len(outputs) < 2
    /\ outputs' = Append(outputs, cleanText(IF outputs = <<>> THEN call.text
                                            ELSE Some(outputs[Len(outputs)])))
    /\ UNCHANGED <<commonVars, mainVars, fastVars, countVars, call>>

\* part_001:8: a value that is no text gives ''
CallCleanTextFast ==
    /\ call.fn = "cleanTextFast"
    /\ Len(outputs) < 2
    /\ outputs' = Append(outputs,
                         IF outputs # <<>> THEN cleanTextFast(outputs[Len(outputs)])
                         ELSE IF call.text = None THEN <<>>
                         ELSE cleanTextFast(call.text[1]))
    /\ UNCHANGED <<commonVars, mainVars, fastVars, countVars, call>>

\* ----------------------------------------------- the name of a place page
CityHeartClinic ==
    <<"C", "i", "t", "y", " ", "H", "e", "a", "r", "t", " ", "C", "l", "i", "n", "i", "c">>

\* what can stand before and after the name in the h1 element
HeadingLeads == { <<>>, <<" ", " ">>, <<"U+000A", " ">> }
HeadingTails ==
    { <<>>, <<" ", "U+2B50", " ">>, <<"U+2B50">>, <<" ", "U+2B50", "U+FE0F", " ">>,
      <<" ", "U+1F600", " ", " ">> }

\* a rendered place page with an h1 element and nothing else to read
HeadingPage(h1) ==
    Page(<<Some(h1), None, None>>, None, None,
         <<None, None>>, <<None, None, None>>, <<None, None>>, <<None, None, None>>)

BusinessDataCalls ==
    { [fn |-> "businessData", h1 |-> lead \o CityHeartClinic \o tail,
       page |-> HeadingPage(lead \o CityHeartClinic \o tail)]
        : lead \in HeadingLeads, tail \in HeadingTails }

\* main.js 417-547, the DETAIL handler putting the record together
CallBusinessData ==
    /\ call.fn = "businessData"
    /\ outputs = <<>>
    /\ outputs' = <<businessData(call.page, <<"a">>, "q1")>>
    /\ UNCHANGED <<commonVars, mainVars, fastVars, countVars, call>>

\* ------------------------------------------------- the input and its checks
defaultMaxResults == 20         \* main.js:123
defaultMaxResultsFast == 10     \* part_001:144

\* The input as read: searchQueries is a list of texts or something that is
\* no array; maxResults is a number, a text that is no number, or left out.
QueryLists ==
    { <<>>, << <<>> >>, << <<" ">> >>, << <<"q">> >>, << <<" ">>, <<"q">> >>,
      << <<>>, <<" ">> >> }

SearchQueriesInputs ==
    { [isArray |-> TRUE, items |-> l] : l \in QueryLists }
    \cup { [isArray |-> FALSE, items |-> <<>>] }

MaxResultsInputs ==
    { [kind |-> "number", value |-> n] : n \in {0 - 1, 0, 1, 2, 500, 501} }
    \cup { [kind |-> "text", value |-> 0], [kind |-> "undefined", value |-> 0] }

\* a < b and a > b of JavaScript, a read as a number: a text that is no
\* number is NaN, and every comparison with NaN is false
JsLess(a, b) == a.kind = "number" /\ a.value < b
JsGreater(a, b) == a.kind = "number" /\ a.value > b

\* searchQueries.filter((q) => q && q.trim().length > 0)
RECURSIVE filterQueries(_)
filterQueries(items) ==
    IF items = <<>> THEN <<>>
    ELSE (IF Head(items) # <<>> /\ Len(Trim(Head(items))) > 0 THEN <<Head(items)>> ELSE <<>>)
         \o filterQueries(Tail(items))

Aborted == [aborted |-> TRUE, validQueries |-> <<>>]
Started(validQueries) == [aborted |-> FALSE, validQueries |-> validQueries]

\* main.js 121-143
validateInput(searchQueries, maxResultsInput) ==
    LET given == IF maxResultsInput.kind = "undefined"
                 THEN [kind |-> "number", value |-> defaultMaxResults]
                 ELSE maxResultsInput
    IN  IF ~searchQueries.isArray \/ Len(searchQueries.items) = 0 THEN Aborted
        ELSE IF JsLess(given, 1) \/ JsGreater(given, 500) THEN Aborted
        ELSE IF Len(filterQueries(searchQueries.items)) = 0 THEN Aborted
        ELSE Started(filterQueries(searchQueries.items))

\* part_001 142-157
validateInputFast(searchQueries, maxResultsInput) ==
    IF ~searchQueries.isArray \/ Len(searchQueries.items) = 0 THEN Aborted
    ELSE IF Len(filterQueries(searchQueries.items)) = 0 THEN Aborted
    ELSE Started(filterQueries(searchQueries.items))

ValidateCalls ==
    { [fn |-> f, searchQueries |-> q, maxResults |-> m] :
        f \in {"validateInput", "validateInputFast"},
        q \in SearchQueriesInputs, m \in MaxResultsInputs }

CallValidateInput ==
    /\ call.fn = "validateInput"
    /\ outputs = <<>>
    /\ outputs' = <<validateInput(call.searchQueries, call.maxResults)>>
    /\ UNCHANGED <<commonVars, mainVars, fastVars, countVars, call>>

CallValidateInputFast ==
    /\ call.fn = "validateInputFast"
    /\ outputs = <<>>
    /\ outputs' = <<validateInputFast(call.searchQueries, call.maxResults)>>
    /\ UNCHANGED <<commonVars, mainVars, fastVars, countVars, call>>

\* ------------------------------------------------ main.js 473-495: imageUrls
\* TRUE iff the text s holds the text p at position i
HasAt(s, i, p) ==
    /\ i >= 1
    /\ i + Len(p) - 1 <= Len(s)
    /\ SubSeq(s, i, i + Len(p) - 1) = p

Http == <<"h", "t", "t", "p">>
UrlOpen == <<"u", "r", "l", "(">>

\* a value is truthy for || and &&: neither null nor the empty text
TruthyText(v) == v # None /\ v # Some(<<>>)

\* an <img> node with the four attributes main.js 478-481 reads
ImgNode(src, dataSrc, dataIurl, dataLazySrc) ==
    [src |-> src, dataSrc |-> dataSrc, dataIurl |-> dataIurl, dataLazySrc |-> dataLazySrc]

\* main.js 477-481
srcOf(img) ==
    IF TruthyText(img.src) THEN img.src
    ELSE IF TruthyText(img.dataSrc) THEN img.dataSrc
    ELSE IF TruthyText(img.dataIurl) THEN img.dataIurl
    ELSE img.dataLazySrc

\* Set.prototype.add, the set kept in insertion order
SetAdd(urls, v) ==
    IF \E k \in 1..Len(urls) : urls[k] = v THEN urls ELSE Append(urls, v)

\* main.js 483, 486, 492
imageUrlsCap == 5

\* main.js 476-484
RECURSIVE addImgNodes(_, _, _)
addImgNodes(imgNodes, i, urls) ==
    IF i > Len(imgNodes) THEN urls
    ELSE LET src == srcOf(imgNodes[i])
             added == IF TruthyText(src) /\ HasAt(src[1], 1, Http)
                      THEN SetAdd(urls, src[1]) ELSE urls
         IN  IF Len(added) >= imageUrlsCap THEN added
             ELSE addImgNodes(imgNodes, i + 1, added)

\* the first position from i on with a '"' or a ')', or Len(s) + 1
RECURSIVE EndOfUrl(_, _)
EndOfUrl(s, i) ==
    IF i > Len(s) \/ s[i] \in {"Q", ")"} THEN i ELSE EndOfUrl(s, i + 1)

\* main.js:490, /url\("?(https?:[^")]+)"?\)/ tried at position i: the group,
\* or None.  "Q" is the code point of the double quote.
bgMatchAt(s, i) ==
    IF ~HasAt(s, i, UrlOpen) THEN None
    ELSE LET start == IF HasAt(s, i + 4, <<"Q">>) THEN i + 5 ELSE i + 4
             colon == IF HasAt(s, start, Http \o <<"s", ":">>) THEN start + 5
                      ELSE IF HasAt(s, start, Http \o <<":">>) THEN start + 4
                      ELSE 0
             end == EndOfUrl(s, colon + 1)
         IN  IF colon = 0 \/ end = colon + 1 THEN None
             ELSE IF HasAt(s, end, <<")">>) \/ HasAt(s, end, <<"Q", ")">>)
             THEN Some(SubSeq(s, start, end - 1))
             ELSE None

\* style.match(...): the leftmost match
RECURSIVE bgMatch(_, _)
bgMatch(s, i) ==
    IF i > Len(s) THEN None
    ELSE IF bgMatchAt(s, i) # None THEN bgMatchAt(s, i)
    ELSE bgMatch(s, i + 1)

\* main.js 488-493
RECURSIVE addBgNodes(_, _, _)
addBgNodes(bgNodes, i, urls) ==
    IF i > Len(bgNodes) THEN urls
    ELSE LET match == bgMatch(bgNodes[i], 1)
             added == IF match # None /\ match[1] # <<>>
                      THEN SetAdd(urls, match[1]) ELSE urls
         IN  IF Len(added) >= imageUrlsCap THEN added
             ELSE addBgNodes(bgNodes, i + 1, added)

\* main.js 473-495 and 506: Array.from(imageUrls)
imageUrls(captureImages, imgNodes, bgNodes) ==
    IF ~captureImages THEN <<>>
    ELSE LET foreground == addImgNodes(imgNodes, 1, <<>>)
         IN  IF Len(foreground) < imageUrlsCap
             THEN addBgNodes(bgNodes, 1, foreground)
             ELSE foreground

\* main.js:529
imagesField(includeImages, images) ==
    IF includeImages /\ Len(images) > 0 THEN Some(images) ELSE None

\* the images of a place page as the record has them (main.js 508, 529)
recordImages(includeImages, imgNodes, bgNodes) ==
    imagesField(includeImages, imageUrls(includeImages, imgNodes, bgNodes))

\* ----- the pages the image collection is called with
MaxImgNodes == 6

ImageNo(n) == <<"1", "2", "3", "4", "5", "6", "7", "8", "9">>[n]

\* 'https://lh<n>' 
PhotoUrl(n) == Http \o <<"s", ":", "/", "/", "l", "h", ImageNo(n)>>

OnlySrc(text) == ImgNode(Some(text), None, None, None)

ImgNodes ==
    { OnlySrc(PhotoUrl(1)),
      OnlySrc(Http \o <<":", "/", "/", "l", "h", "2">>),
      ImgNode(None, Some(PhotoUrl(3)), None, None),
      ImgNode(Some(<<>>), None, None, Some(PhotoUrl(1))),
      ImgNode(None, None, Some(<<"/", "/", "l", "h", "4">>), None),
      OnlySrc(<<"/", "a", ".", "p", "n", "g">>),
      OnlySrc(<<"d", "a", "t", "a", ":", "i", "m", "g">>),
      OnlySrc(Http \o <<"-", "l", "o", "g", "o", ".", "p", "n", "g">>),
      ImgNode(None, None, None, None) }

\* n photo buttons, each with its own image
PhotoStrip(n) == [k \in 1..n |-> OnlySrc(PhotoUrl(k))]

ImgNodeLists ==
    {<<>>} \cup { <<a>> : a \in ImgNodes } \cup { <<a, b>> : a, b \in ImgNodes }
    \cup { PhotoStrip(n) : n \in 4..MaxImgNodes }

\* 'background-image:url("<u>")' and 'url(<u>)'
QuotedStyle(u) == <<"b", "g", ":">> \o UrlOpen \o <<"Q">> \o u \o <<"Q", ")">>
PlainStyle(u) == UrlOpen \o u \o <<")">>

BgStyles ==
    { QuotedStyle(PhotoUrl(7)),
      PlainStyle(PhotoUrl(1)),
      PlainStyle(PhotoUrl(8)),
      QuotedStyle(<<"/", "b", ".", "p", "n", "g">>) }

BgNodeLists ==
    {<<>>} \cup { <<a>> : a \in BgStyles } \cup { <<a, b>> : a, b \in BgStyles }

ImagesCalls ==
    { [fn |-> "recordImages", includeImages |-> inc, imgNodes |-> imgs, bgNodes |-> bgs]
        : inc \in BOOLEAN, imgs \in ImgNodeLists, bgs \in BgNodeLists }

\* main.js 473-495, 508 and 529: the DETAIL handler putting the images into
\* the record
CallRecordImages ==
    /\ call.fn = "recordImages"
    /\ outputs = <<>>
    /\ outputs' = <<recordImages(call.includeImages, call.imgNodes, call.bgNodes)>>
    /\ UNCHANGED <<commonVars, mainVars, fastVars, countVars, call>>

\* ------------------------------------------- main.js 549-577: the reviews
\* main.js:558, slice(0, 10)
reviewsSliceEnd == 10

\* the largest number of review snippets a page shows
MaxSnippets == 11

\* main.js:549: includeReviews && businessData.reviewsCount && businessData.reviewsCount > 0
reviewsWanted(includeReviews, data) ==
    /\ includeReviews
    /\ data.reviewsCount # None
    /\ data.reviewsCount[1] > 0

\* elements.map(el => el.textContent.trim()).slice(0, 10)
trimmedSlice(snippets) ==
    [k \in 1..(IF Len(snippets) < reviewsSliceEnd THEN Len(snippets) ELSE reviewsSliceEnd)
        |-> Trim(snippets[k])]

\* reviews.map(r => cleanText(r)).filter(r => r)
RECURSIVE cleanedNonEmpty(_)
cleanedNonEmpty(reviews) ==
    IF reviews = <<>> THEN <<>>
    ELSE LET r == cleanText(Some(Head(reviews)))
         IN  (IF r = <<>> THEN <<>> ELSE <<r>>) \o cleanedNonEmpty(Tail(reviews))

\* What the reviews control of a page does: whether the locator finds a
\* button, whether the click or the wait for 'div[data-review-id]' throws
\* (main.js 555-556), and the snippets the page then shows.
ReviewsControl(found, throws, snippets) ==
    [found |-> found, throws |-> throws, snippets |-> snippets]

\* main.js 549-577, the DETAIL handler after businessData is put together:
\* the reviews are read (549-565), then the record without a name is skipped
\* (571-574) and the record with one is pushed (576).
\* clicked: reviewsButton.click was called; reviews: businessData.reviews
detailTail(includeReviews, data, control) ==
    LET wanted == reviewsWanted(includeReviews, data)
        read == wanted /\ control.found /\ ~control.throws
    IN  [clicked |-> wanted /\ control.found,
         reviews |-> IF read THEN Some(cleanedNonEmpty(trimmedSlice(control.snippets)))
                     ELSE None,
         failed |-> FALSE,
         pushed |-> ~hasNoName(data),
         data |-> data]

\* ----- the pages the reviews are read from
Snippet == <<" ", "g", "o", "o", "d", " ">>

SnippetLists ==
    { <<>>, <<Snippet>>, <<<<"U+2B50">>, Snippet>>, [k \in 1..MaxSnippets |-> Snippet] }

ReviewsControls ==
    { ReviewsControl(FALSE, FALSE, <<>>) }
    \cup { ReviewsControl(TRUE, TRUE, <<>>) }
    \cup { ReviewsControl(TRUE, FALSE, s) : s \in SnippetLists }

\* a place page with the given h1 and title and the given review label
ReviewsPage(h1, title, reviewLabel) ==
    Page(<<h1, None, None>>, title, None,
         <<None, None>>, <<None, None, None>>, <<reviewLabel, None>>, <<None, None, None>>)

ReviewsPages ==
    { ReviewsPage(h1, title, label) :
        h1 \in {None, Some(<<"A">>)},
        title \in {None, Some(<<" ">>), Some(<<"B", " ", "-", " ", "G">>)},
        label \in {None, Some(<<"1", "2", " ", "r">>), Some(<<"0", " ", "r">>),
                   Some(<<"r">>)} }

DetailTailCalls ==
    { [fn |-> "detailTail", includeReviews |-> inc, page |-> page, control |-> control]
        : inc \in BOOLEAN, page \in ReviewsPages, control \in ReviewsControls }

\* main.js 417-577, the DETAIL handler from the record to the push
CallDetailTail ==
    /\ call.fn = "detailTail"
    /\ outputs = <<>>
    /\ outputs' = <<detailTail(call.includeReviews,
                               businessData(call.page, <<"a">>, "q1"), call.control)>>
    /\ UNCHANGED <<commonVars, mainVars, fastVars, countVars, call>>

\* -------------------------------- main.js 418-471, 532-547: the field probes
\* the texts the name selectors of a page hold (main.js:438): the first h1
\* of the document, 'h1 span', and the h1 of the main region
NameProbes ==
    { <<Some(<<" ", "A", " ">>), None, None>>,
      <<Some(<<"U+2B50">>), None, Some(<<"A">>)>>,
      <<None, None, None>> }

\* the page title and the content of the meta element
TitleProbes ==
    { [title |-> Some(<<"B", " ", "-", " ", "G">>), metaTitle |-> None],
      [title |-> Some(<<" ", "-", " ", "G">>), metaTitle |-> Some(<<"B">>)],
      [title |-> None, metaTitle |-> Some(<<"B">>)],
      [title |-> None, metaTitle |-> None] }

\* the 'stars' labels and the texts of the rating elements
RatingProbes ==
    { [starsLabels |-> <<Some(<<"4", ".", "5", " ", "s">>), None>>,
       ratingTexts |-> <<None, None, None>>],
      [starsLabels |-> <<Some(<<"s">>), None>>,
       ratingTexts |-> <<Some(<<"4", ".", "5">>), None, None>>],
      [starsLabels |-> <<None, None>>,
       ratingTexts |-> <<None, Some(<<"3">>), None>>],
      [starsLabels |-> <<None, None>>, ratingTexts |-> <<None, None, None>>] }

FieldProbeCalls ==
    { [fn |-> "fieldProbes",
       page |-> Page(names, t.title, t.metaTitle, r.starsLabels, r.ratingTexts,
                     <<None, None>>, <<None, None, None>>)]
        : names \in NameProbes, t \in TitleProbes, r \in RatingProbes }

\* main.js 417-547, the DETAIL handler reading the fields of a page
CallFieldProbes ==
    /\ call.fn = "fieldProbes"
    /\ outputs = <<>>
    /\ outputs' = <<businessData(call.page, <<"a">>, "q1")>>
    /\ UNCHANGED <<commonVars, mainVars, fastVars, countVars, call>>

\* --------------------------------------- part_001 69-88: the JSON-LD scan
MaxBlocks == 3

JsonLdBlocks ==
    { Block(TRUE, <<"LocalBusiness">>, Some(<<"A">>), Some(Rating45), Some(12)),
      Block(TRUE, <<"Restaurant", "LocalBusiness">>, Some(<<"B">>), None, None),
      Block(TRUE, <<"WebSite">>, Some(<<"G">>), None, None),
      Block(FALSE, <<>>, None, None, None) }

RECURSIVE BlockLists(_)
BlockLists(n) ==
    IF n = 0 THEN {<<>>}
    ELSE BlockLists(n - 1)
         \cup { Append(l, b) : l \in { x \in BlockLists(n - 1) : Len(x) = n - 1 },
                               b \in JsonLdBlocks }

ScanCalls == { [fn |-> "scanJsonLd", blocks |-> l] : l \in BlockLists(MaxBlocks) }

\* part_001 69-88: data after the each() over the script elements
CallScanJsonLd ==
    /\ call.fn = "scanJsonLd"
    /\ outputs = <<>>
    /\ outputs' = <<scanJsonLd(call.blocks, None)>>
    /\ UNCHANGED <<commonVars, mainVars, fastVars, countVars, call>>

\* ------------------------- main.js 337-363: the SEARCH handler up to the feed
\* How the SEARCH handler gets on after the feed selectors, for the way sel
\* the selectors behave and a page that holds 'unusual traffic' or 'captcha'
\* (hasMarker): the crawler stops the attempt at requestHandlerTimeoutSecs
\* (main.js:204), else the feed is there (line 349), else the page content
\* is tested (lines 359-363), else the search box is tried (line 366).
searchFeedStep(sel, hasMarker) ==
    LET w == waitForFeed(sel, 1, 0)
    IN  IF ~InTime(w.elapsed) THEN "requestHandlerTimeout"
        ELSE IF w.feedFound THEN "feedFound"
        ELSE IF hasMarker THEN "Bot detection triggered"
        ELSE "searchBox"

SearchFeedCalls ==
    { [fn |-> "searchFeedStep", sel |-> sel, hasMarker |-> m]
        : sel \in FeedSelectorOutcomes, m \in BOOLEAN }

CallSearchFeedStep ==
    /\ call.fn = "searchFeedStep"
    /\ outputs = <<>>
    /\ outputs' = <<searchFeedStep(call.sel, call.hasMarker)>>
    /\ UNCHANGED <<commonVars, mainVars, fastVars, countVars, call>>

\* --------------------------------------- main.js: the requests of a run counted
\* A run of main.js with maxConcurrency 1, its requests counted: startUrls
\* (main.js:145-152) puts one SEARCH request per query into the queue, a
\* SEARCH handler adds up to maxResults DETAIL requests behind them
\* (main.js:388-404), and the queue hands the requests out in the order they
\* were added.
QueryCounts == {1, 2, MaxQueries - 1, MaxQueries}

InitCount ==
    /\ maxConcurrency = 1
    /\ dataset = EmptyBag
    /\ faultsLeft = 0
    /\ requestQueue = <<>>
    /\ seenBusinessUrls = {}
    /\ sessions = {}
    /\ resultLists = {}
    /\ presented = {}
    /\ admitted = EmptyBag
    /\ challenged = {}
    /\ searchQueue = <<>>
    /\ seenUrls = {}
    /\ allBusinessData = <<>>
    /\ proxyConf = [count |-> 1, next |-> 0]
    /\ saved = FALSE
    /\ fetched = {}
    /\ detached = {}
    /\ fastAdmitted = {}
    /\ timeoutsLeft = 0
    /\ call = [fn |-> "none"]
    /\ outputs = <<>>
    /\ validQueriesLength \in QueryCounts
    /\ runMaxResults \in 1..maxResults
    /\ pendingSearch = validQueriesLength
    /\ pendingDetail = 0
    /\ handledRequestsCount = 0
    /\ crawlPc = "run"

\* a SEARCH request is handled, or fails for good (main.js:583-592): its
\* handler has added the DETAIL requests of the links it admitted
\* (main.js:388-404), from none to maxResults of them
SearchRequestHandled ==
    /\ crawlPc = "run"
    /\ pendingSearch > 0
    /\ BudgetLeft
    /\ \E links \in 0..runMaxResults :
          pendingDetail' = pendingDetail + links
    /\ pendingSearch' = pendingSearch - 1
    /\ handledRequestsCount' = handledRequestsCount + 1
    /\ UNCHANGED <<commonVars, mainVars, fastVars, pureVars, validQueriesLength,
                   runMaxResults, crawlPc>>

\* a DETAIL request is handled, or fails for good
DetailRequestHandled ==
    /\ crawlPc = "run"
    /\ pendingSearch = 0
    /\ pendingDetail > 0
    /\ BudgetLeft
    /\ pendingDetail' = pendingDetail - 1
    /\ handledRequestsCount' = handledRequestsCount + 1
    /\ UNCHANGED <<commonVars, mainVars, fastVars, pureVars, validQueriesLength,
                   runMaxResults, pendingSearch, crawlPc>>

\* main.js:595: crawler.run returns when the queue is empty or
\* maxRequestsPerCrawl is reached
CrawlerRunReturns ==
    /\ crawlPc = "run"
    /\ (pendingSearch = 0 /\ pendingDetail = 0) \/ ~BudgetLeft
    /\ crawlPc' = "done"
    /\ UNCHANGED <<commonVars, mainVars, fastVars, pureVars, validQueriesLength,
                   runMaxResults, pendingSearch, pendingDetail, handledRequestsCount>>

\* main.js:597-665: the summary is written and the run exits
SummaryAndExit ==
    /\ crawlPc = "done"
    /\ crawlPc' = "exited"
    /\ UNCHANGED <<commonVars, mainVars, fastVars, pureVars, validQueriesLength,
                   runMaxResults, pendingSearch, pendingDetail, handledRequestsCount>>

NextCount ==
    \/ SearchRequestHandled
    \/ DetailRequestHandled
    \/ CrawlerRunReturns
    \/ SummaryAndExit

SpecCount == InitCount /\ [][NextCount]_vars

\* the crawler goes on while a request can be taken, and the code after
\* crawler.run runs
SpecCountFair == SpecCount /\ WF_vars(NextCount)

PureCalls == CoordsCalls \cup RecordCoordsCalls \cup RatingCalls
    \cup CleanTextCalls \cup BusinessDataCalls
    \cup ValidateCalls \cup ImagesCalls
    \cup DetailTailCalls \cup FieldProbeCalls
    \cup ScanCalls \cup SearchFeedCalls

InitPure ==
    /\ maxConcurrency = 1
    /\ dataset = EmptyBag
    /\ faultsLeft = 0
    /\ requestQueue = <<>>
    /\ seenBusinessUrls = {}
    /\ sessions = {}
    /\ resultLists = {}
    /\ presented = {}
    /\ admitted = EmptyBag
    /\ challenged = {}
    /\ searchQueue = <<>>
    /\ seenUrls = {}
    /\ allBusinessData = <<>>
    /\ proxyConf = [count |-> 1, next |-> 0]
    /\ saved = FALSE
    /\ fetched = {}
    /\ detached = {}
    /\ fastAdmitted = {}
    /\ timeoutsLeft = 0
    /\ call \in PureCalls
    /\ outputs = <<>>
    /\ CountIdle

NextPure ==
    \/ CallParseCoordsFromUrl
    \/ CallRecordCoords
    \/ CallParseRating
    \/ CallParseRatingFast
    \/ CallCleanText
    \/ CallCleanTextFast
    \/ CallBusinessData
    \/ CallValidateInput
    \/ CallValidateInputFast
    \/ CallRecordImages
    \/ CallDetailTail
    \/ CallFieldProbes
    \/ CallScanJsonLd
    \/ CallSearchFeedStep

SpecPure == InitPure /\ [][NextPure]_vars

\* ====================================================== claims, main.js
RECURSIVE Occurrences(_, _)
Occurrences(s, x) ==
    IF s = <<>> THEN 0
    ELSE (IF Head(s) = x THEN 1 ELSE 0) + Occurrences(Tail(s), x)

\* how often the place link u is on its way to an extraction: as a DETAIL
\* request of the queue, or in the limitedLinks a SEARCH handler is adding
ExtractionsOf(u) ==
    Cardinality({ i \in Requests :
                    requestQueue[i].label = "DETAIL" /\ requestQueue[i].url = u })
    + Cardinality({ i \in Requests :
                    Occurrences(requestQueue[i].limitedLinks, u) = 1 })
    + 2 * Cardinality({ i \in Requests :
                    Occurrences(requestQueue[i].limitedLinks, u) > 1 })

AdmittedAs(u) ==
    { v \in BagToSet(admitted) : canonicalizePlaceUrl(v) = canonicalizePlaceUrl(u) }

Starting(i) ==
    /\ requestQueue[i].state = "queued"
    /\ requestQueue'[i].state = "running"

\* C3: an attempt never starts with a session whose earlier attempt ended in
\* 'Bot detection triggered'; so the retry of the challenged request runs
\* with another session than the one that failed.
C3_ChallengedSessionNotHandedOut ==
    [][\A i \in Requests : Starting(i) => requestQueue'[i].session \notin challenged]_vars

\* a request whose last attempt was challenged runs again, with a session
\* picked from the full pool
C3_Witness ==
    \E i \in Requests :
        /\ requestQueue[i].state = "running"
        /\ requestQueue[i].errorMessages # <<>>
        /\ requestQueue[i].errorMessages[Len(requestQueue[i].errorMessages)]
              = "Bot detection triggered"
        /\ requestQueue[i].session # <<i, requestQueue[i].retryCount>>

EntriesFor(u) == { e \in BagToSet(dataset) : e.url = u }

\* C5: a DETAIL request that has ended (handled or failed) has exactly one
\* dataset entry, a business record or a failure entry with a reason.
C5_EveryEndHasAnEntry ==
    \A i \in Requests :
        (requestQueue[i].label = "DETAIL" /\ requestQueue[i].state \in {"handled", "failed"})
        => /\ Cardinality(EntriesFor(requestQueue[i].url)) = 1
           /\ \A e \in EntriesFor(requestQueue[i].url) :
                 /\ CopiesIn(e, dataset) = 1
                 /\ e.error => e.errorMessage # <<>>

\* the page has no element that bears a name: no heading, no title, no meta
NoNameBearingElement(page) ==
    /\ \A k \in 1..Len(page.names) : page.names[k] = None \/ Trim(page.names[k][1]) = <<>>
    /\ page.title = None \/ Trim(page.title[1]) = <<>>
    /\ page.metaTitle = None \/ page.metaTitle[1] = <<>>

BusinessRecordsFor(u) == { e \in EntriesFor(u) : ~e.error }

\* C6: a DETAIL request whose handler read a page without any name-bearing
\* element is handled (it is not queued or run again) and no business record
\* of it is in the dataset.
C6_NoNameIsDropped ==
    \A i \in Requests :
        (requestQueue[i].page # None /\ NoNameBearingElement(requestQueue[i].page[1]))
        => /\ requestQueue[i].state = "handled"
           /\ BusinessRecordsFor(requestQueue[i].url) = {}

\* a second attempt of a DETAIL request read a page without a name
C6_Witness ==
    \E i \in Requests :
        /\ requestQueue[i].page # None
        /\ NoNameBearingElement(requestQueue[i].page[1])
        /\ requestQueue[i].retryCount = 1

ErrorEntriesFor(u) == { e \in EntriesFor(u) : e.error }

\* the attempts of request i that have started
Attempts(i) ==
    Len(requestQueue[i].errorMessages)
    + (IF requestQueue[i].state \in {"running", "handled"} THEN 1 ELSE 0)

\* C8: a request is attempted at most 1 + maxRequestRetries times; a retry
\* starts with a session that has no failed attempt, so not with the session of
\* the attempt before; a request that has used up its attempts stays failed
\* and has exactly one failure entry (no other request has one).
C8_RetryCeiling ==
    /\ [](\A i \in Requests :
            /\ Attempts(i) <= 1 + maxRequestRetries
            /\ \A e \in ErrorEntriesFor(requestQueue[i].url) :
                  requestQueue[i].state = "failed" /\ CopiesIn(e, dataset) = 1
            /\ requestQueue[i].state = "failed"
                  => Cardinality(ErrorEntriesFor(requestQueue[i].url)) = 1)
    /\ [][\A i \in Requests :
            /\ requestQueue[i].state = "failed" => requestQueue'[i].state = "failed"
            /\ Starting(i) =>
                  /\ requestQueue'[i].session # requestQueue[i].failedSession
                  /\ \A s \in sessions' :
                        s.id = requestQueue'[i].session => s.errorScore = 0]_vars

\* a request has failed 1 + maxRequestRetries times, the last time with a
\* session picked from the full pool
C8_Witness ==
    \E i \in Requests :
        /\ requestQueue[i].state = "failed"
        /\ Len(requestQueue[i].errorMessages) = 1 + maxRequestRetries
        /\ requestQueue[i].failedSession # <<i, maxRequestRetries>>

\* ==================================================== claims, part_001
\* the place extractions in flight: the DETAIL requests main.js is running
\* and the extractPlaceHttp calls part_001 has started
DetailsRunning ==
    { i \in Requests : requestQueue[i].label = "DETAIL" /\ requestQueue[i].state = "running" }

HttpInFlight ==
    { <<k, t>> \in FastRequests \X UNION { searchQueue[k].inFlight : k \in FastRequests } :
        t \in searchQueue[k].inFlight }

\* C2: at no time are more place extractions in flight than maxConcurrency.
C2_InFlightWithinCeiling ==
    Cardinality(DetailsRunning) + Cardinality(HttpInFlight) <= maxConcurrency

\* C4: no two place extractions in flight go out under the same identity
\* (the proxy URL of newUrl()).
C4_IdentityHeldOnce ==
    \A x, y \in HttpInFlight : x # y => x[2].proxyUrl # y[2].proxyUrl

InStrategies(f, name) == \E n \in 1..Len(f.strategies) : f.strategies[n] = name

\* C7: an extraction that the fetch and the structured data gave no named
\* record to went on to the rendered page, and one that they gave a name to did
\* not; the structured data were read before the fetch.
C7_RenderIsTheFallback ==
    \A f \in fetched :
        /\ InStrategies(f, "render") <=> ~f.named
        /\ f.strategies[1] = "structured"

BusinessRecords == { e \in BagToSet(dataset) : ~e.error }

\* C9: every business record of the dataset has a name that is there and is
\* not empty once the white space around it is taken off.
C9_NameNonEmpty ==
    \A e \in BusinessRecords : e.name # None /\ Trim(e.name[1]) # <<>>

\* C10: in every business record of the dataset the rating is absent or in
\* [0, 5] and the review count is absent or not negative.
C10_RatingAndCountInRange ==
    \A e \in BusinessRecords :
        /\ e.rating = None
             \/ (0 <= e.rating[1].num /\ e.rating[1].num <= 5 * e.rating[1].den)
        /\ e.reviewsCount = None \/ e.reviewsCount[1] >= 0

\* the place links admitted for the query q: by part_001, and by main.js
\* (the DETAIL requests of the query and the links a SEARCH handler is adding)
AdmittedFor(q) ==
    Cardinality({ e \in fastAdmitted : e.query = q })
    + Cardinality({ i \in Requests :
                      requestQueue[i].label = "DETAIL" /\ requestQueue[i].query = q })
    + Cardinality({ <<i, n>> \in Requests \X (1..maxResults) :
                      /\ requestQueue[i].query = q
                      /\ n <= Len(requestQueue[i].limitedLinks) })

\* C17: over all the handler runs of a query, retries included, at most
\* maxResults place links are admitted.
C17_AdmittedWithinMaxResults ==
    \A q \in {"q1", "q2", "q3"} : AdmittedFor(q) <= maxResults

\* ================================================ claims, helper functions
\* C11: the coordinates that the DETAIL handler puts into a business record
\* are both there or both absent.
C11_CoordsPaired ==
    (call.fn = "recordCoords" /\ outputs # <<>>)
    => (outputs[1].latitude = None <=> outputs[1].longitude = None)

\* what parseCoordsFromUrl is to return for a URL made of the parts at and
\* data: the coordinates of the '@' part if it spells any, else those of the
\* 'data' part
ExpectedCoords(at, data) ==
    IF at.latitude # None
    THEN [latitude |-> at.latitude, longitude |-> at.longitude]
    ELSE [latitude |-> data.latitude, longitude |-> data.longitude]

\* C13: parseCoordsFromUrl returns both coordinates or neither, those of the
\* '@' pattern if it matches, else those of the '!3d..!4d..' pattern, never
\* one of each.
C13_ParseCoordsPairs ==
    (call.fn = "parseCoordsFromUrl" /\ outputs # <<>>)
    => /\ outputs[1].latitude = None <=> outputs[1].longitude = None
       /\ outputs[1] = ExpectedCoords(call.at, call.data)

\* a URL with both patterns, spelling different coordinates, was parsed
C13_Witness ==
    /\ call.fn = "parseCoordsFromUrl"
    /\ outputs # <<>>
    /\ call.at.latitude # None
    /\ call.data.latitude # None
    /\ call.at.latitude # call.data.latitude

\* C12: parseRating (of main.js and of part_001) returns null or a number
\* from 0 to 5.
C12_RatingInRange ==
    (call.fn \in {"parseRating", "parseRatingFast"} /\ outputs # <<>>)
    => \/ outputs[1] = None
       \/ (0 <= outputs[1][1].num /\ outputs[1][1].num <= 5 * outputs[1][1].den)

\* parseRating was called on "9.5" or on "5.9", texts whose number is out of
\* the range
C12_Witness ==
    /\ call.fn = "parseRating"
    /\ outputs # <<>>
    /\ \/ call.text = Some(<<"9", ".", "5">>) /\ outputs[1] = None
       \/ call.text = Some(<<"5", ".", "9">>) /\ outputs[1] = None

C15_HeadingGivesTheName ==
    (call.fn = "businessData" /\ outputs # <<>>)
    => outputs[1].name = Some(CityHeartClinic)

\* the h1 "  City Heart Clinic * " (the star being U+2B50) was read
C15_Witness ==
    /\ call.fn = "businessData"
    /\ outputs # <<>>
    /\ call.h1 = <<" ", " ">> \o CityHeartClinic \o <<" ", "U+2B50", " ">>

\* the configuration of the call is invalid: searchQueries is no array or
\* holds no query that is more than white space, or maxResults is given and
\* is no number from 1 to 500
InvalidConfiguration ==
    \/ ~call.searchQueries.isArray
    \/ \A k \in 1..Len(call.searchQueries.items) : Trim(call.searchQueries.items[k]) = <<>>
    \/ call.maxResults.kind = "text"
    \/ call.maxResults.kind = "number"
          /\ (call.maxResults.value < 1 \/ call.maxResults.value > 500)

\* C16: the run aborts at the checks of the input, before the crawler is
\* made, exactly when the configuration is invalid.
C16_InvalidConfigAborts ==
    (call.fn \in {"validateInput", "validateInputFast"} /\ outputs # <<>>)
    => (outputs[1].aborted <=> InvalidConfiguration)

\* C18: no admitted place is dropped for lack of capacity: when crawler.run
\* has returned, every DETAIL request a SEARCH handler added has been handed
\* to the request handler, for any number of queries and any maxResults.
C18_NoDetailRequestLeftBehind ==
    crawlPc \in {"done", "exited"} => pendingDetail = 0

\* C19: the run terminates with every SEARCH and DETAIL request in a final
\* state (record written, dropped, or failed after its retries), the summary
\* written and the run exited.
C19_RunEndsWithEveryRequestEnded ==
    <>(crawlPc = "exited" /\ pendingSearch + pendingDetail = 0)

\* an absolute http or https URL
IsAbsoluteHttpUrl(u) ==
    \/ HasAt(u, 1, Http \o <<":", "/", "/">>) /\ Len(u) > 7
    \/ HasAt(u, 1, Http \o <<"s", ":", "/", "/">>) /\ Len(u) > 8

\* the URLs the foreground <img> nodes of the call give
ForegroundUrls ==
    { srcOf(call.imgNodes[k])[1] :
        k \in { n \in 1..Len(call.imgNodes) : TruthyText(srcOf(call.imgNodes[n])) } }

\* C20: the images of a record are absent, or 1 to 5 distinct absolute
\* http/https URLs with the foreground image sources before the
\* background-style URLs; they are absent whenever includeImages is false.
C20_ImagesAbsentOrUpToFiveAbsoluteUrls ==
    (call.fn = "recordImages" /\ outputs # <<>>) =>
        LET images == outputs[1]
        IN  /\ ~call.includeImages => images = None
            /\ images # None =>
                  /\ Len(images[1]) \in 1..imageUrlsCap
                  /\ \A k, m \in 1..Len(images[1]) : images[1][k] = images[1][m] => k = m
                  /\ \A k \in 1..Len(images[1]) : IsAbsoluteHttpUrl(images[1][k])
                  /\ \A k, m \in 1..Len(images[1]) :
                        (k < m /\ images[1][m] \in ForegroundUrls)
                            => images[1][k] \in ForegroundUrls

\* C21: the reviews are looked for only for a record with a non-empty name
\* (never for a request that is dropped for having no name), only when
\* includeReviews is set and the review count is known and above 0; at most
\* 10 snippets are attached and a failure of the reading does not fail the
\* request.
C21_ReviewsOnlyForSufficientRecord ==
    (call.fn = "detailTail" /\ outputs # <<>>) =>
        /\ outputs[1].clicked =>
              /\ outputs[1].pushed
              /\ call.includeReviews
              /\ outputs[1].data.reviewsCount # None
              /\ outputs[1].data.reviewsCount[1] > 0
        /\ outputs[1].reviews # None =>
              outputs[1].clicked /\ Len(outputs[1].reviews[1]) <= reviewsSliceEnd
        /\ ~outputs[1].failed

\* the names the strategies of the name field would give for the page of the
\* call, each normalised: the three selectors, the page title before '-',
\* the meta element
UsableNames ==
    ({ cleanText(Some(Trim(call.page.names[k][1]))) :
         k \in { n \in 1..Len(call.page.names) : call.page.names[n] # None } }
     \cup (IF call.page.title = None THEN {}
           ELSE {cleanText(Some(BeforeHyphen(call.page.title[1])))})
     \cup (IF call.page.metaTitle = None THEN {} ELSE {cleanText(call.page.metaTitle)}))
    \ {<<>>}

\* the ratings the strategies of the rating field would give
UsableRatings ==
    ({ parseRating(call.page.starsLabels[k]) : k \in 1..Len(call.page.starsLabels) }
     \cup { parseRating(call.page.ratingTexts[k]) : k \in 1..Len(call.page.ratingTexts) })
    \ {None}

\* C22: a field of the rendered-page record is absent only if every strategy
\* of its list gives no usable value; a strategy whose raw result is
\* non-empty but normalises to nothing or does not parse does not stop the
\* later ones.
C22_AbsentOnlyIfEveryStrategyFails ==
    (call.fn = "fieldProbes" /\ outputs # <<>>) =>
        /\ hasNoName(outputs[1]) => UsableNames = {}
        /\ outputs[1].rating = None => UsableRatings = {}

\* the positions of the blocks of the call that parse and declare a
\* recognized business type
MatchingBlocks ==
    { k \in 1..Len(call.blocks) : call.blocks[k].parses /\ IsLocalBusiness(call.blocks[k]) }

\* C23: of several structured-data blocks the record is built from the first
\* one, in document order, that declares a recognized business type; later
\* matching blocks change nothing, blocks that do not parse are skipped, and
\* without a matching block the result is absent.
C23_FirstMatchingBlockWins ==
    (call.fn = "scanJsonLd" /\ outputs # <<>>) =>
        IF MatchingBlocks = {} THEN outputs[1] = None
        ELSE LET first == CHOOSE k \in MatchingBlocks : \A m \in MatchingBlocks : k <= m
             IN  /\ outputs[1] # None
                 /\ outputs[1][1].name = call.blocks[first].name
                 /\ outputs[1][1].rating = call.blocks[first].ratingValue
                 /\ outputs[1][1].reviewsCount = call.blocks[first].reviewCount

\* the extraction of the place with the key u has come to an end: its
\* extractPlaceHttp call returned (with a record or without), or DETAIL
\* requests for it were put into the queue, which end in a record, a skip or
\* a failure entry
ExtractionEnded(u) ==
    \/ \E f \in fetched : canonicalizePlaceUrl(f.url) = u
    \/ \E i \in Requests :
          /\ requestQueue[i].label = "DETAIL"
          /\ canonicalizePlaceUrl(requestQueue[i].url) = u
          /\ requestQueue[i].state \in {"handled", "failed"}

\* C24: at the end of the run every identifier a search handler put into the
\* seen-set has reached the end of its extraction, also when the handler
\* that admitted it failed or timed out after the admission and the search
\* request was retried.
C24_SeenIdentifiersReachAnOutcome ==
    saved => \A u \in seenUrls : ExtractionEnded(u)

\* C25: when none of the four feed selectors matches and the page holds a
\* challenge marker, the SEARCH handler gets to the challenge check and
\* fails the attempt with the bot-detection error before the handler timeout
\* stops it.
C25_ChallengeReportedBeforeTimeout ==
    ( /\ call.fn = "searchFeedStep"
      /\ outputs # <<>>
      /\ call.hasMarker
      /\ \A k \in 1..4 : call.sel[k] # "match" )
    => outputs[1] = "Bot detection triggered"
====
